---- MODULE Spec2Model ----
(***************************************************************************)
(* Oscillator frequency and phase resolution over an event list, after    *)
(* src/python/laboneq/compiler/seqc/ir_to_event_list.py.                  *)
(*                                                                         *)
(* An event is a Python dict.  It is modelled as a record with one field  *)
(* per key the passes read or write; a key that may be missing holds an   *)
(* optional value: << >> when the key is absent, <<v>> when it is v.      *)
(* event["signal"] is a signal id or a set of ids; both passes turn an id *)
(* into the singleton set first, so the field holds the set.              *)
(* Times, frequencies and phase offsets are numbers of abstract units; a  *)
(* phase is the pair (cycles, offset) standing for 2*pi*cycles + offset,  *)
(* so the arithmetic is exact (floating-point rounding is not modelled).  *)
(***************************************************************************)
EXTENDS Integers, Sequences, FiniteSets, TLC

VARIABLES
    ir_signals,                  \* ir.signals: uid -> oscillator kind, device class
    input_list,                  \* the event list as handed to the pass
    event_list,                  \* the event list, mutated in place / returned
    pc,                          \* position in the pass
    sorted_events,               \* indices into event_list, in sweep order
    idx,                         \* number of events of sorted_events consumed
    current_frequency_map,       \* _calculate_osc_freq: signal -> frequency
    oscillator_phase_cumulative, \* _calculate_osc_phase: signal -> phase
    oscillator_phase_sets,       \* _calculate_osc_phase: signal -> time
    phase_reset_time,            \* _calculate_osc_phase: last global reset
    ir_root,                     \* ir.root: None, or the leaves under the root
    ir_devices,                  \* ir.devices: the device types, in order
    max_events,                  \* generate_event_list_from_ir: event budget
    tree,                        \* the IR tree calculate_oscillator_parameters reads
    visit_stack,                 \* _PickOscillatorParameters: pending visit calls
    sw_osc_times,                \* _PickOscillatorParameters._sw_osc_times
    freq_by_signal,              \* OscillatorParameters._freq_by_signal
    mins,                        \* OscillatorParameters._mins
    answer,                      \* what the last freq_at call returned or raised
    experiment_dao,              \* ScheduleData.experiment_dao
    sampling_rate_tracker,       \* ScheduleData.sampling_rate_tracker
    acquire_pulses,              \* ScheduleData.acquire_pulses
    signal_objects,              \* ScheduleData.signal_objects
    combined_warnings,           \* ScheduleData.combined_warnings
    cached_since_reset           \* the cache insertions since the last reset()

passVars == <<ir_signals, input_list, event_list, pc, sorted_events, idx,
              current_frequency_map, oscillator_phase_cumulative,
              oscillator_phase_sets, phase_reset_time>>

passVars_but_pc == <<ir_signals, input_list, event_list, sorted_events, idx,
                     current_frequency_map, oscillator_phase_cumulative,
                     oscillator_phase_sets, phase_reset_time>>

irVars == <<ir_root, ir_devices, max_events>>

paramVars == <<tree, visit_stack, sw_osc_times, freq_by_signal, mins, answer>>

scheduleVars == <<experiment_dao, sampling_rate_tracker, acquire_pulses,
                  signal_objects, combined_warnings, cached_since_reset>>

\* What the two passes never touch.
outerVars == <<irVars, paramVars, scheduleVars>>

vars == <<passVars, irVars, paramVars, scheduleVars>>

---------------------------------------------------------------------------
(* Bounds of the model *)

MaxEvents == 3
MaxTime == 2
MaxNodes == 3
MaxOffset == 1
MaxCached == 2

---------------------------------------------------------------------------
(* Values *)

NoField == << >>
Some(v) == <<v>>
Has(f) == f # NoField
Get(f) == f[1]

PyNone == [none |-> TRUE, cycles |-> 0, offset |-> 0]
Phase(c, o) == [none |-> FALSE, cycles |-> c, offset |-> o]

EmptyMap == [s \in {} |-> 0]
Put(m, s, v) == [k \in DOMAIN m \cup {s} |-> IF k = s THEN v ELSE m[k]]
GetOr(m, s, d) == IF s \in DOMAIN m THEN m[s] ELSE d

Max(a, b) == IF a >= b THEN a ELSE b

Times == 0..MaxTime

PLAY_START == "PLAY_START"
DELAY_START == "DELAY_START"
ACQUIRE_START == "ACQUIRE_START"
RESET_SW_OSCILLATOR_PHASE == "RESET_SW_OSCILLATOR_PHASE"
SET_OSCILLATOR_FREQUENCY_START == "SET_OSCILLATOR_FREQUENCY_START"
SET_OSCILLATOR_FREQUENCY_END == "SET_OSCILLATOR_FREQUENCY_END"
INITIAL_OSCILLATOR_FREQUENCY == "INITIAL_OSCILLATOR_FREQUENCY"
INITIAL_RESET_HW_OSCILLATOR_PHASE == "INITIAL_RESET_HW_OSCILLATOR_PHASE"

\* "id" not in event
NoId == -1

Event(id, type, time, signal) ==
    [id |-> id, event_type |-> type, time |-> time, signal |-> signal,
     device_id |-> NoField, duration |-> NoField,
     value |-> NoField, chain_element_id |-> NoField,
     phase |-> NoField,
     oscillator_frequency |-> NoField,
     increment_oscillator_phase |-> NoField,
     set_oscillator_phase |-> NoField,
     oscillator_phase |-> NoField]

\* The state of the parts a specification leaves out.
IrIdle == ir_root = NoField /\ ir_devices = << >> /\ max_events = 0

ParamsIdle ==
    /\ tree = << >> /\ visit_stack = << >> /\ sw_osc_times = EmptyMap
    /\ freq_by_signal = EmptyMap /\ mins = EmptyMap /\ answer = NoField

ScheduleIdle ==
    /\ experiment_dao = 0 /\ sampling_rate_tracker = 0
    /\ acquire_pulses = EmptyMap /\ signal_objects = EmptyMap
    /\ combined_warnings = EmptyMap /\ cached_since_reset = << >>

---------------------------------------------------------------------------
(* Signals of the IR.  oscillator is "HW" (is_hardware), "SW" (an          *)
(* oscillator that is not hardware) or "NONE" (signal.oscillator is None); *)
(* qa is DeviceType.is_qa_device of the signal's device.                   *)

SignalIds == {"s1", "s2"}

SignalInfo(osc, qa) == [oscillator |-> osc, qa |-> qa]

\* Variant: no oscillator counts as hardware.
IsHwOscMutAlwaysFalse(signal_id) == FALSE
\* is_hw_osc = oscillator_info.is_hardware if oscillator_info else False
IsHwOsc(signal_id) == ir_signals[signal_id].oscillator = "HW"

IsQaDevice(signal_id) == ir_signals[signal_id].qa

\* oscillator_map[signal_id] finds every signal of the event.
Known(event) == event.signal \subseteq DOMAIN ir_signals

---------------------------------------------------------------------------
(* sorted(events, key = (time, priority)): Python's sort is stable, so     *)
(* events with equal keys keep their order in the list.  The result is     *)
(* the sequence of the positions (in the list) of the selected events.     *)

\* Variant: the events are sorted by priority alone.
KeyLeqMutPriorityOnly(list, priority_map, i, j) ==
    priority_map[list[i].event_type] <= priority_map[list[j].event_type]
\* (time, priority) of event i is at most that of event j.
KeyLeq(list, priority_map, i, j) ==
    \/ list[i].time < list[j].time
    \/ /\ list[i].time = list[j].time
       /\ priority_map[list[i].event_type] <= priority_map[list[j].event_type]

Insert(list, priority_map, s, i) ==
    LET k == Cardinality({p \in 1..Len(s) : KeyLeq(list, priority_map, s[p], i)})
    IN  SubSeq(s, 1, k) \o <<i>> \o SubSeq(s, k + 1, Len(s))

RECURSIVE SortPrefix(_, _, _)
SortPrefix(list, priority_map, n) ==
    IF n = 0 THEN << >>
    ELSE LET s == SortPrefix(list, priority_map, n - 1)
         IN  IF list[n].event_type \in DOMAIN priority_map
             THEN Insert(list, priority_map, s, n)
             ELSE s

Sorted(list, priority_map) == SortPrefix(list, priority_map, Len(list))

---------------------------------------------------------------------------
(* _calculate_osc_freq *)

\* Variant: a set sorts after the plays of its time.
FreqPriorityMutSetAfterPlay ==
    [PLAY_START |-> 0, ACQUIRE_START |-> 0,
     SET_OSCILLATOR_FREQUENCY_START |-> 15,
     INITIAL_OSCILLATOR_FREQUENCY |-> -30]
\* Variant: an initial frequency sorts after the sets of its time.
FreqPriorityMutInitialAfterSet ==
    [PLAY_START |-> 0, ACQUIRE_START |-> 0,
     SET_OSCILLATOR_FREQUENCY_START |-> -15,
     INITIAL_OSCILLATOR_FREQUENCY |-> -10]
\* priority_map of _calculate_osc_freq
FreqPriority ==
    [PLAY_START |-> 0, ACQUIRE_START |-> 0,
     SET_OSCILLATOR_FREQUENCY_START |-> -15,
     INITIAL_OSCILLATOR_FREQUENCY |-> -30]

FreqSort ==
    /\ pc = "freq_start"
    /\ sorted_events' = Sorted(event_list, FreqPriority)
    /\ current_frequency_map' = EmptyMap
    /\ idx' = 0
    /\ pc' = "freq_loop"
    /\ UNCHANGED <<ir_signals, input_list, event_list,
                   oscillator_phase_cumulative, oscillator_phase_sets,
                   phase_reset_time>>
    /\ UNCHANGED outerVars

\* Variant: a frequency step overwrites the entry of every signal.
FreqWrittenMutEverySignal(event) ==
    IF event.event_type = SET_OSCILLATOR_FREQUENCY_START
    THEN SignalIds
    ELSE IF event.event_type = INITIAL_OSCILLATOR_FREQUENCY
         THEN {s \in event.signal : ~IsHwOsc(s)}
         ELSE {}
\* Variant: a frequency step writes the entries of software signals only.
FreqWrittenMutSoftwareOnly(event) ==
    IF event.event_type \in {SET_OSCILLATOR_FREQUENCY_START,
                             INITIAL_OSCILLATOR_FREQUENCY}
    THEN {s \in event.signal : ~IsHwOsc(s)}
    ELSE {}
\* The signals of a frequency-defining event whose map entry it overwrites.
FreqWritten(event) ==
    IF event.event_type = SET_OSCILLATOR_FREQUENCY_START
    THEN event.signal
    ELSE IF event.event_type = INITIAL_OSCILLATOR_FREQUENCY
         THEN {s \in event.signal : ~IsHwOsc(s)}
         ELSE {}

\* The signals of a play/acquire event whose frequency is stamped on it.
FreqStamped(event) ==
    IF event.event_type \in {SET_OSCILLATOR_FREQUENCY_START,
                             INITIAL_OSCILLATOR_FREQUENCY}
    THEN {}
    ELSE {s \in event.signal : ~IsHwOsc(s) /\ s \in DOMAIN current_frequency_map}

\* One iteration of "for event in sorted_events", with its inner loop over
\* the event's signals.  The inner loop visits a Python set in no specified
\* order; the last stamped signal's frequency stays on the event.
FreqStep ==
    /\ pc = "freq_loop"
    /\ idx < Len(sorted_events)
    /\ LET i == sorted_events[idx + 1]
           event == event_list[i]
       IN  /\ Known(event)
           /\ current_frequency_map' =
                 [s \in DOMAIN current_frequency_map \cup FreqWritten(event) |->
                    IF s \in FreqWritten(event) THEN Get(event.value)
                    ELSE current_frequency_map[s]]
           /\ IF FreqStamped(event) = {}
              THEN event_list' = event_list
              ELSE \E s \in FreqStamped(event) :
                     event_list' = [event_list EXCEPT
                        ![i].oscillator_frequency = Some(current_frequency_map[s])]
    /\ idx' = idx + 1
    /\ UNCHANGED <<ir_signals, input_list, pc, sorted_events,
                   oscillator_phase_cumulative, oscillator_phase_sets,
                   phase_reset_time>>
    /\ UNCHANGED outerVars

\* Variant: an event with a signal that is not in oscillator_map is skipped.
FreqLookupFaultMutSkipped ==
    /\ pc = "freq_loop"
    /\ idx < Len(sorted_events)
    /\ ~Known(event_list[sorted_events[idx + 1]])
    /\ idx' = idx + 1
    /\ UNCHANGED <<ir_signals, input_list, event_list, pc, sorted_events,
                   current_frequency_map, oscillator_phase_cumulative,
                   oscillator_phase_sets, phase_reset_time>>
    /\ UNCHANGED outerVars
\* oscillator_map[signal_id] raises KeyError.  The inner loop may have
\* visited some of the event's known signals before the one it misses.
FreqLookupFault ==
    /\ pc = "freq_loop"
    /\ idx < Len(sorted_events)
    /\ LET event == event_list[sorted_events[idx + 1]]
       IN  /\ ~Known(event)
           /\ \E visited \in SUBSET (event.signal \cap DOMAIN ir_signals) :
                 LET written == FreqWritten([event EXCEPT !.signal = visited])
                 IN  current_frequency_map' =
                        [s \in DOMAIN current_frequency_map \cup written |->
                           IF s \in written THEN Get(event.value)
                           ELSE current_frequency_map[s]]
    /\ pc' = "fault"
    /\ UNCHANGED <<ir_signals, input_list, event_list, sorted_events, idx,
                   oscillator_phase_cumulative, oscillator_phase_sets,
                   phase_reset_time>>
    /\ UNCHANGED outerVars

---------------------------------------------------------------------------
(* _remove_handled_oscillator_events *)

\* Variant: every START is handled.
StartHandledMutEvery(event) ==
    event.event_type = SET_OSCILLATOR_FREQUENCY_START
\* Variant: a START is handled only when none of its signals is hardware.
StartHandledMutAllSoftware(event) ==
    /\ event.event_type = SET_OSCILLATOR_FREQUENCY_START
    /\ \A s \in event.signal : ~IsHwOsc(s)
\* A START is handled when one of its signals has no hardware oscillator.
StartHandled(event) ==
    /\ event.event_type = SET_OSCILLATOR_FREQUENCY_START
    /\ \E s \in event.signal : ~IsHwOsc(s)

\* Variant: an INITIAL event is handled only on a software oscillator.
InitialHandledMutSoftwareOnly(event) ==
    /\ event.event_type = INITIAL_OSCILLATOR_FREQUENCY
    /\ \E s \in event.signal : ~IsHwOsc(s)
\* Every INITIAL event is handled.
InitialHandled(event) ==
    event.event_type = INITIAL_OSCILLATOR_FREQUENCY

\* handled_event_id after the first loop
HandledFirst(list) ==
    {list[i].id : i \in {j \in 1..Len(list) :
                           StartHandled(list[j]) \/ InitialHandled(list[j])}}

\* Variant: no END event is handled.
EndHandledMutNever(event, handled) == FALSE
\* An END event is handled when its chain_element_id is in handled_event_id.
EndHandled(event, handled) ==
    /\ event.event_type = SET_OSCILLATOR_FREQUENCY_END
    /\ Has(event.chain_element_id)
    /\ Get(event.chain_element_id) \in handled

\* handled_event_id after the first n iterations of the second loop
RECURSIVE HandledPrefix(_, _)
HandledPrefix(list, n) ==
    IF n = 0 THEN HandledFirst(list)
    ELSE LET handled == HandledPrefix(list, n - 1)
         IN  IF EndHandled(list[n], handled)
             THEN handled \cup {list[n].id}
             ELSE handled

\* handled_event_id after the second loop
HandledEventId(list) == HandledPrefix(list, Len(list))

RECURSIVE FilterPrefix(_, _, _)
FilterPrefix(list, handled, n) ==
    IF n = 0 THEN << >>
    ELSE IF list[n].id \in handled
         THEN FilterPrefix(list, handled, n - 1)
         ELSE Append(FilterPrefix(list, handled, n - 1), list[n])

RemoveHandledOscillatorEvents(list) ==
    FilterPrefix(list, HandledEventId(list), Len(list))

\* The end of _calculate_osc_freq: return the filtered list.  The filter
\* reads event["id"] of every event of the list.
FreqReturn ==
    /\ pc = "freq_loop"
    /\ idx = Len(sorted_events)
    /\ \A i \in 1..Len(event_list) : event_list[i].id # NoId
    /\ event_list' = RemoveHandledOscillatorEvents(event_list)
    /\ pc' = "freq_done"
    /\ UNCHANGED <<ir_signals, input_list, sorted_events, idx,
                   current_frequency_map, oscillator_phase_cumulative,
                   oscillator_phase_sets, phase_reset_time>>
    /\ UNCHANGED outerVars

\* The filter meets an event without an id: KeyError.
FreqReturnFault ==
    /\ pc = "freq_loop"
    /\ idx = Len(sorted_events)
    /\ \E i \in 1..Len(event_list) : event_list[i].id = NoId
    /\ pc' = "fault"
    /\ UNCHANGED <<ir_signals, input_list, event_list, sorted_events, idx,
                   current_frequency_map, oscillator_phase_cumulative,
                   oscillator_phase_sets, phase_reset_time>>
    /\ UNCHANGED outerVars

---------------------------------------------------------------------------
(* The two passes as functions of the list they are given, for the         *)
(* properties that compare the results on two lists.  A play or acquire    *)
(* event has one signal.                                                   *)

\* current_frequency_map and the list after n iterations of the loop of
\* _calculate_osc_freq
RECURSIVE FreqSweep(_, _, _)
FreqSweep(list, sorted, n) ==
    IF n = 0 THEN [map |-> EmptyMap, list |-> list]
    ELSE LET before == FreqSweep(list, sorted, n - 1)
             i == sorted[n]
             event == before.list[i]
             written == FreqWritten(event)
             stamped == IF event.event_type \in {SET_OSCILLATOR_FREQUENCY_START,
                                                     INITIAL_OSCILLATOR_FREQUENCY}
                        THEN {}
                        ELSE {s \in event.signal :
                                ~IsHwOsc(s) /\ s \in DOMAIN before.map}
         IN  [map |-> [s \in DOMAIN before.map \cup written |->
                         IF s \in written THEN Get(event.value)
                         ELSE before.map[s]],
              list |-> IF stamped = {}
                       THEN before.list
                       ELSE [before.list EXCEPT ![i].oscillator_frequency =
                               Some(before.map[CHOOSE s \in stamped : TRUE])]]

\* _calculate_osc_freq(list, ir)
FreqResult(list) ==
    LET sorted == Sorted(list, FreqPriority)
    IN  RemoveHandledOscillatorEvents(FreqSweep(list, sorted, Len(sorted)).list)

\* _calculate_osc_freq called once more, on the list it returned.
FreqRerun ==
    /\ pc = "freq_done"
    /\ event_list' = FreqResult(event_list)
    /\ pc' = "freq_rerun_done"
    /\ UNCHANGED <<ir_signals, input_list, sorted_events, idx,
                   current_frequency_map, oscillator_phase_cumulative,
                   oscillator_phase_sets, phase_reset_time>>
    /\ UNCHANGED outerVars

---------------------------------------------------------------------------
(* Inputs of the frequency pass: ir.signals and an event list.             *)

\* s1 has any kind of oscillator, s2 a software oscillator.
FreqSignalMaps ==
    {[s \in SignalIds |-> IF s = "s1" THEN SignalInfo(o, FALSE)
                          ELSE SignalInfo("SW", FALSE)] : o \in {"HW", "SW", "NONE"}}

SignalSets == {{"s1"}, {"s2"}, {"s1", "s2"}}

\* The events an input may hold, before numbering.  The chain_element_id
\* of an END event is any id of the list.
FreqAlphabet ==
    {Event(0, k, t, {s}) :
        k \in {PLAY_START, ACQUIRE_START}, t \in Times, s \in SignalIds}
    \cup {[Event(0, SET_OSCILLATOR_FREQUENCY_START, t, ss)
             EXCEPT !.value = Some(0)] : t \in Times, ss \in SignalSets}
    \cup {[Event(0, INITIAL_OSCILLATOR_FREQUENCY, t, {s})
             EXCEPT !.value = Some(0)] : t \in Times, s \in SignalIds}
    \cup {[Event(0, SET_OSCILLATOR_FREQUENCY_END, MaxTime, {})
             EXCEPT !.chain_element_id = Some(c)] : c \in 0..(MaxEvents - 1)}

\* The event at position n has id n - 1.  A frequency-defining event gets a
\* value of its own (n), so that the event a stamped frequency came from
\* can be told from the value.
Numbered(list) ==
    [n \in 1..Len(list) |->
        [list[n] EXCEPT !.id = n - 1,
                        !.value = IF Has(@) THEN Some(n) ELSE @]]

\* A SET_OSCILLATOR_FREQUENCY_END event is the end of one START event of
\* the list, and no two END events end the same START.
ChainsOk(list) ==
    \A i \in 1..Len(list) :
        list[i].event_type = SET_OSCILLATOR_FREQUENCY_END =>
            /\ \E j \in 1..Len(list) :
                  /\ list[j].event_type = SET_OSCILLATOR_FREQUENCY_START
                  /\ list[j].id = Get(list[i].chain_element_id)
            /\ \A j \in 1..Len(list) :
                  (j # i /\ list[j].event_type = SET_OSCILLATOR_FREQUENCY_END)
                     => list[j].chain_element_id # list[i].chain_element_id

\* An END event targets the signals of its START.
Linked(list) ==
    [i \in 1..Len(list) |->
        IF list[i].event_type = SET_OSCILLATOR_FREQUENCY_END
        THEN [list[i] EXCEPT !.signal = list[Get(list[i].chain_element_id) + 1].signal]
        ELSE list[i]]

InitFreq ==
    /\ IrIdle /\ ParamsIdle /\ ScheduleIdle
    /\ ir_signals \in FreqSignalMaps
    /\ \E n \in 0..MaxEvents :
          \E l \in [1..n -> FreqAlphabet] :
              /\ ChainsOk(Numbered(l))
              /\ input_list = Linked(Numbered(l))
              /\ event_list = Linked(Numbered(l))
    /\ pc = "freq_start"
    /\ sorted_events = << >>
    /\ idx = 0
    /\ current_frequency_map = EmptyMap
    /\ oscillator_phase_cumulative = EmptyMap
    /\ oscillator_phase_sets = EmptyMap
    /\ phase_reset_time = 0

NextFreq == FreqSort \/ FreqStep \/ FreqReturn \/ FreqRerun

SpecFreq == InitFreq /\ [][NextFreq]_vars

---------------------------------------------------------------------------
(* _calculate_osc_phase *)

\* Variant: the sweep takes in the SET_OSCILLATOR_FREQUENCY_START events.
PhasePriorityMutWithSetStart ==
    [PLAY_START |-> 0, DELAY_START |-> 0, ACQUIRE_START |-> 0,
     RESET_SW_OSCILLATOR_PHASE |-> -15, SET_OSCILLATOR_FREQUENCY_START |-> 0]
\* Variant: a reset sorts after the pulses of its time.
PhasePriorityMutResetAfterPlay ==
    [PLAY_START |-> 0, DELAY_START |-> 0, ACQUIRE_START |-> 0,
     RESET_SW_OSCILLATOR_PHASE |-> 15]
\* priority_map of _calculate_osc_phase
PhasePriority ==
    [PLAY_START |-> 0, DELAY_START |-> 0, ACQUIRE_START |-> 0,
     RESET_SW_OSCILLATOR_PHASE |-> -15]

PhaseSort ==
    /\ pc = "phase_start"
    /\ sorted_events' = Sorted(event_list, PhasePriority)
    /\ oscillator_phase_cumulative' = EmptyMap
    /\ oscillator_phase_sets' = EmptyMap
    /\ phase_reset_time' = 0
    /\ idx' = 0
    /\ pc' = "phase_loop"
    /\ UNCHANGED <<ir_signals, input_list, event_list, current_frequency_map>>
    /\ UNCHANGED outerVars

\* RESET_SW_OSCILLATOR_PHASE: the new reset time, and every entry of the
\* cumulative map back to 0.
PhaseReset ==
    /\ pc = "phase_loop"
    /\ idx < Len(sorted_events)
    /\ LET event == event_list[sorted_events[idx + 1]]
       IN  /\ event.event_type = RESET_SW_OSCILLATOR_PHASE
           /\ phase_reset_time' = event.time
           /\ oscillator_phase_cumulative' =
                 [s \in DOMAIN oscillator_phase_cumulative |-> 0]
    /\ idx' = idx + 1
    /\ UNCHANGED <<ir_signals, input_list, event_list, pc, sorted_events,
                   current_frequency_map, oscillator_phase_sets>>
    /\ UNCHANGED outerVars

\* signal_id = event["signal"]: a play, delay or acquire event has one signal.
SignalOf(event) == CHOOSE s \in event.signal : TRUE

\* Variant: the increment is absorbed on every oscillator.
AbsorbsIncrementMutHardwareToo(event) ==
    Has(event.increment_oscillator_phase)
\* The increment is absorbed when the oscillator is not hardware.
AbsorbsIncrement(event) ==
    Has(event.increment_oscillator_phase) /\ ~IsHwOsc(SignalOf(event))

\* oscillator_phase_cumulative after the increment of the event
CumulativeAfterIncrement(cumulative, event) ==
    IF AbsorbsIncrement(event)
    THEN Put(cumulative, SignalOf(event),
             GetOr(cumulative, SignalOf(event), 0)
                + Get(event.increment_oscillator_phase))
    ELSE cumulative

\* Variant: the absolute set adds to the cumulative phase.
CumulativeAfterSetMutAdds(cumulative, event) ==
    IF Has(event.set_oscillator_phase)
    THEN Put(cumulative, SignalOf(event),
             GetOr(cumulative, SignalOf(event), 0)
                + Get(event.set_oscillator_phase))
    ELSE cumulative
\* oscillator_phase_cumulative after the absolute set of the event
CumulativeAfterSet(cumulative, event) ==
    IF Has(event.set_oscillator_phase)
    THEN Put(cumulative, SignalOf(event), Get(event.set_oscillator_phase))
    ELSE cumulative

\* Variant: the reference time is the reset time alone.
PhaseReferenceTimeMutResetOnly(reset_time, sets, signal_id) == reset_time
\* max(phase_reset_time, oscillator_phase_sets.get(signal_id, 0.0))
PhaseReferenceTime(reset_time, sets, signal_id) ==
    Max(reset_time, GetOr(sets, signal_id, 0))

\* Variant: the phase is computed on QA devices too.
OscillatorPhaseMutQaComputed(event, cumulative, sets) ==
    LET signal_id == SignalOf(event)
        t == event.time - PhaseReferenceTime(phase_reset_time, sets, signal_id)
        f == IF Has(event.oscillator_frequency)
             THEN Get(event.oscillator_frequency) ELSE 0
    IN  IF IsHwOsc(signal_id) THEN PyNone
        ELSE Phase(t * f, GetOr(cumulative, signal_id, 0))
\* Variant: a hardware oscillator gets the phase 0.
OscillatorPhaseMutHardwareZero(event, cumulative, sets) ==
    LET signal_id == SignalOf(event)
        t == event.time - PhaseReferenceTime(phase_reset_time, sets, signal_id)
        f == IF Has(event.oscillator_frequency)
             THEN Get(event.oscillator_frequency) ELSE 0
    IN  IF IsHwOsc(signal_id) THEN Phase(0, 0)
        ELSE IF ~IsQaDevice(signal_id)
             THEN Phase(t * f, GetOr(cumulative, signal_id, 0))
             ELSE Phase(0, 0)
\* The value written to event["oscillator_phase"].
OscillatorPhase(event, cumulative, sets) ==
    LET signal_id == SignalOf(event)
        incremented_phase == GetOr(cumulative, signal_id, 0)
        phase_reference_time ==
            PhaseReferenceTime(phase_reset_time, sets, signal_id)
        oscillator_frequency ==
            IF Has(event.oscillator_frequency)
            THEN Get(event.oscillator_frequency) ELSE 0
        t == event.time - phase_reference_time
    IN  IF IsHwOsc(signal_id) THEN PyNone
        ELSE IF ~IsQaDevice(signal_id)
             THEN Phase(t * oscillator_frequency, incremented_phase)
             ELSE Phase(0, 0)

\* Variant: the assertion of line 71 is not made.
SetAllowedMutNotChecked(event) == TRUE
\* The assertion of line 71 passes: the oscillator exists and is not hardware.
\* (oscillator_info None makes the assertion's operand raise AttributeError.)
SetAllowed(event) == ir_signals[SignalOf(event)].oscillator = "SW"

\* PLAY_START, DELAY_START or ACQUIRE_START, the whole loop body.
PhaseEvent ==
    /\ pc = "phase_loop"
    /\ idx < Len(sorted_events)
    /\ LET i == sorted_events[idx + 1]
           event == event_list[i]
           signal_id == SignalOf(event)
           cumulative == CumulativeAfterSet(
               CumulativeAfterIncrement(oscillator_phase_cumulative, event), event)
           sets == IF Has(event.set_oscillator_phase)
                   THEN Put(oscillator_phase_sets, signal_id, event.time)
                   ELSE oscillator_phase_sets
       IN  /\ event.event_type # RESET_SW_OSCILLATOR_PHASE
           /\ Known(event)
           /\ Has(event.set_oscillator_phase) => SetAllowed(event)
           /\ oscillator_phase_cumulative' = cumulative
           /\ oscillator_phase_sets' = sets
           /\ event_list' = [event_list EXCEPT ![i] =
                 [event EXCEPT
                    !.increment_oscillator_phase =
                        IF AbsorbsIncrement(event) THEN NoField ELSE @,
                    !.set_oscillator_phase = NoField,
                    !.oscillator_phase =
                        Some(OscillatorPhase(event, cumulative, sets))]]
    /\ idx' = idx + 1
    /\ UNCHANGED <<ir_signals, input_list, pc, sorted_events,
                   current_frequency_map, phase_reset_time>>
    /\ UNCHANGED outerVars

\* The assertion of line 71 fails (or raises): the pass ends there, with the
\* increment of the same event already absorbed.
PhaseFault ==
    /\ pc = "phase_loop"
    /\ idx < Len(sorted_events)
    /\ LET i == sorted_events[idx + 1]
           event == event_list[i]
       IN  /\ event.event_type # RESET_SW_OSCILLATOR_PHASE
           /\ Known(event)
           /\ Has(event.set_oscillator_phase)
           /\ ~SetAllowed(event)
           /\ oscillator_phase_cumulative' =
                 CumulativeAfterIncrement(oscillator_phase_cumulative, event)
           /\ event_list' = [event_list EXCEPT ![i].increment_oscillator_phase =
                 IF AbsorbsIncrement(event) THEN NoField ELSE @]
    /\ pc' = "fault"
    /\ UNCHANGED <<ir_signals, input_list, sorted_events, idx,
                   current_frequency_map, oscillator_phase_sets,
                   phase_reset_time>>
    /\ UNCHANGED outerVars

\* oscillator_map[signal_id] of line 59 raises KeyError.
PhaseLookupFault ==
    /\ pc = "phase_loop"
    /\ idx < Len(sorted_events)
    /\ LET event == event_list[sorted_events[idx + 1]]
       IN  /\ event.event_type # RESET_SW_OSCILLATOR_PHASE
           /\ ~Known(event)
    /\ pc' = "fault"
    /\ UNCHANGED <<ir_signals, input_list, event_list, sorted_events, idx,
                   current_frequency_map, oscillator_phase_cumulative,
                   oscillator_phase_sets, phase_reset_time>>
    /\ UNCHANGED outerVars

PhaseReturn ==
    /\ pc = "phase_loop"
    /\ idx = Len(sorted_events)
    /\ pc' = "phase_done"
    /\ UNCHANGED <<ir_signals, input_list, event_list, sorted_events, idx,
                   current_frequency_map, oscillator_phase_cumulative,
                   oscillator_phase_sets, phase_reset_time>>
    /\ UNCHANGED outerVars

---------------------------------------------------------------------------
(* Inputs of the phase pass: ir.signals and an event list, the play and    *)
(* acquire events already stamped (or not) with a frequency.               *)

\* s1 has any kind of oscillator on either class of device; s2 has a
\* software oscillator on a device that is not QA.
PhaseSignalMaps ==
    {[s \in SignalIds |-> IF s = "s1" THEN SignalInfo(o, qa)
                          ELSE SignalInfo("SW", FALSE)] :
        o \in {"HW", "SW", "NONE"}, qa \in BOOLEAN}

\* kind, oscillator_frequency, increment_oscillator_phase, set_oscillator_phase
PhaseVariants ==
    {<<PLAY_START, Some(1), NoField, NoField>>,
     <<PLAY_START, Some(1), Some(1), NoField>>,
     <<PLAY_START, Some(1), NoField, Some(5)>>,
     <<PLAY_START, Some(1), Some(1), Some(5)>>,
     <<ACQUIRE_START, NoField, NoField, NoField>>,
     <<ACQUIRE_START, Some(-1), NoField, NoField>>,
     <<DELAY_START, NoField, Some(1), NoField>>,
     <<DELAY_START, NoField, NoField, Some(5)>>}

\* On s2 only the play events without both fields at once.
PhaseVariantsOn(s) ==
    IF s = "s1" THEN PhaseVariants
    ELSE {v \in PhaseVariants :
            v[1] = PLAY_START /\ ~(Has(v[3]) /\ Has(v[4]))}

\* Events of kinds the phase pass does not select: the start event of a
\* device, and the frequency events the frequency pass has left.
PhaseBystanders ==
    {Event(0, INITIAL_RESET_HW_OSCILLATOR_PHASE, 0, {})}
    \cup {[Event(0, SET_OSCILLATOR_FREQUENCY_START, t, {"s1"})
             EXCEPT !.value = Some(0)] : t \in Times}

\* The frequency pass leaves a SET_OSCILLATOR_FREQUENCY_START event only
\* when every signal of it has a hardware oscillator.
SurvivorsOk(list) ==
    \A i \in 1..Len(list) :
        list[i].event_type = SET_OSCILLATOR_FREQUENCY_START =>
            \A s \in list[i].signal : ir_signals[s].oscillator = "HW"

PhaseAlphabet ==
    UNION {{[Event(0, v[1], t, {s}) EXCEPT
               !.oscillator_frequency = v[2],
               !.increment_oscillator_phase = v[3],
               !.set_oscillator_phase = v[4]] :
              v \in PhaseVariantsOn(s), t \in Times} : s \in SignalIds}
    \cup {Event(0, RESET_SW_OSCILLATOR_PHASE, t, {}) : t \in Times}
    \cup PhaseBystanders

\* The list with the baseband phase on its plays, delays and acquires, or
\* the list as it is.
WithPhase(list, with_phase) ==
    [i \in 1..Len(list) |->
        IF with_phase /\ list[i].event_type \in {PLAY_START, DELAY_START, ACQUIRE_START}
        THEN [list[i] EXCEPT !.phase = Some(0)]
        ELSE list[i]]

InitPhase ==
    /\ IrIdle /\ ParamsIdle /\ ScheduleIdle
    /\ ir_signals \in PhaseSignalMaps
    /\ \E n \in 0..MaxEvents :
          \E l \in [1..n -> PhaseAlphabet], with_phase \in BOOLEAN :
              /\ SurvivorsOk(l)
              /\ input_list = WithPhase(Numbered(l), with_phase)
              /\ event_list = WithPhase(Numbered(l), with_phase)
    /\ pc = "phase_start"
    /\ sorted_events = << >>
    /\ idx = 0
    /\ current_frequency_map = EmptyMap
    /\ oscillator_phase_cumulative = EmptyMap
    /\ oscillator_phase_sets = EmptyMap
    /\ phase_reset_time = 0

NextPhase == PhaseSort \/ PhaseReset \/ PhaseEvent \/ PhaseFault \/ PhaseReturn

SpecPhase == InitPhase /\ [][NextPhase]_vars

---------------------------------------------------------------------------
(* The phase pass, and the two passes in a row, as functions of the list.  *)

\* The state of _calculate_osc_phase after n iterations of its loop, none
\* of which fails the assertion.
RECURSIVE PhaseSweep(_, _, _)
PhaseSweep(list, sorted, n) ==
    IF n = 0
    THEN [cumulative |-> EmptyMap, sets |-> EmptyMap, reset_time |-> 0,
          list |-> list]
    ELSE LET before == PhaseSweep(list, sorted, n - 1)
             i == sorted[n]
             event == before.list[i]
             signal_id == SignalOf(event)
             cumulative == CumulativeAfterSet(
                 CumulativeAfterIncrement(before.cumulative, event), event)
             sets == IF Has(event.set_oscillator_phase)
                     THEN Put(before.sets, signal_id, event.time)
                     ELSE before.sets
             t == event.time
                    - PhaseReferenceTime(before.reset_time, sets, signal_id)
             oscillator_frequency ==
                 IF Has(event.oscillator_frequency)
                 THEN Get(event.oscillator_frequency) ELSE 0
         IN  IF event.event_type = RESET_SW_OSCILLATOR_PHASE
             THEN [before EXCEPT
                     !.reset_time = event.time,
                     !.cumulative = [s \in DOMAIN before.cumulative |-> 0]]
             ELSE [cumulative |-> cumulative, sets |-> sets,
                   reset_time |-> before.reset_time,
                   list |-> [before.list EXCEPT ![i] =
                      [event EXCEPT
                         !.increment_oscillator_phase =
                             IF AbsorbsIncrement(event) THEN NoField ELSE @,
                         !.set_oscillator_phase = NoField,
                         !.oscillator_phase = Some(
                             IF IsHwOsc(signal_id) THEN PyNone
                             ELSE IF ~IsQaDevice(signal_id)
                                  THEN Phase(t * oscillator_frequency,
                                             GetOr(cumulative, signal_id, 0))
                                  ELSE Phase(0, 0))]]]

\* The list after _calculate_osc_phase(list, ir) has returned.
PhaseResult(list) ==
    LET sorted == Sorted(list, PhasePriority)
    IN  PhaseSweep(list, sorted, Len(sorted)).list

\* The list generate_event_list_from_ir returns for the list it hands to
\* the frequency pass.
PassesResult(list) == PhaseResult(FreqResult(list))

---------------------------------------------------------------------------
(* generate_event_list_from_ir.  The flattening of the tree,               *)
(* generate_event_list, is modelled from its contract: the root holds      *)
(* leaves at offsets, a leaf becomes an event at its absolute time with    *)
(* the next id, a frequency step becomes a START and an END event, and     *)
(* more events than max_events is an error.                                *)

\* TINYSAMPLE, in units of half a tiny sample.
TINYSAMPLE == 2

\* A device type is "RESET" or "RESET_LONG" (supports_reset_osc_phase, with
\* a reset duration of its own), "PLAIN" (does not support it) or "UNKNOWN"
\* (DeviceType.from_device_info_type raises ValueError).
DeviceTypes == {"RESET", "RESET_LONG", "PLAIN", "UNKNOWN"}

\* device_type.supports_reset_osc_phase
SupportsResetOscPhase(type) == type \in {"RESET", "RESET_LONG"}

\* device_type.reset_osc_duration
ResetOscDuration(type) == IF type = "RESET_LONG" THEN 2 ELSE 1

\* Variant: every device with a known type gets a start event.
RECURSIVE StartEventsPrefixMutEveryKnown(_, _)
StartEventsPrefixMutEveryKnown(devices, n) ==
    IF n = 0 THEN << >>
    ELSE IF devices[n] # "UNKNOWN"
         THEN Append(StartEventsPrefixMutEveryKnown(devices, n - 1),
                     [Event(NoId, INITIAL_RESET_HW_OSCILLATOR_PHASE, 0, {})
                        EXCEPT !.device_id = Some(n),
                               !.duration = Some(ResetOscDuration(devices[n]))])
         ELSE StartEventsPrefixMutEveryKnown(devices, n - 1)
\* The start events of the first n devices; the uid of a device is its
\* position in ir.devices.
RECURSIVE StartEventsPrefix(_, _)
StartEventsPrefix(devices, n) ==
    IF n = 0 THEN << >>
    ELSE IF SupportsResetOscPhase(devices[n])
         THEN Append(StartEventsPrefix(devices, n - 1),
                     [Event(NoId, INITIAL_RESET_HW_OSCILLATOR_PHASE, 0, {})
                        EXCEPT !.device_id = Some(n),
                               !.duration = Some(ResetOscDuration(devices[n]))])
         ELSE StartEventsPrefix(devices, n - 1)

\* _start_events(ir)
StartEvents(devices) == StartEventsPrefix(devices, Len(devices))

\* The events of the first n leaves, with the ids the id_tracker gave them.
RECURSIVE GeneratePrefix(_, _)
GeneratePrefix(leaves, n) ==
    IF n = 0 THEN << >>
    ELSE LET done == GeneratePrefix(leaves, n - 1)
             leaf == leaves[n]
             first == [leaf EXCEPT !.id = Len(done)]
         IN  IF leaf.event_type = SET_OSCILLATOR_FREQUENCY_START
             THEN done \o <<first,
                            [Event(Len(done) + 1, SET_OSCILLATOR_FREQUENCY_END,
                                   leaf.time, leaf.signal)
                               EXCEPT !.chain_element_id = Some(Len(done))]>>
             ELSE Append(done, first)

GenerateEventList(leaves) == GeneratePrefix(leaves, Len(leaves))

\* Variant: the ids are drawn from a counter of their own, from 0.
AssignIdsMutFreshCounter(list, next_id) ==
    [i \in 1..Len(list) |->
        IF list[i].id = NoId
        THEN [list[i] EXCEPT !.id =
                Cardinality({j \in 1..(i - 1) : list[j].id = NoId})]
        ELSE list[i]]
\* "assign every event an id": the events without one, in list order, get
\* the next values of the id_tracker.
AssignIds(list, next_id) ==
    [i \in 1..Len(list) |->
        IF list[i].id = NoId
        THEN [list[i] EXCEPT !.id =
                next_id + Cardinality({j \in 1..(i - 1) : list[j].id = NoId})]
        ELSE list[i]]

\* event_list = _start_events(ir)
CallStartEvents ==
    /\ pc = "start"
    /\ event_list' = StartEvents(ir_devices)
    /\ pc' = "flatten"
    /\ UNCHANGED <<ir_signals, input_list, sorted_events, idx,
                   current_frequency_map, oscillator_phase_cumulative,
                   oscillator_phase_sets, phase_reset_time>>
    /\ UNCHANGED outerVars

\* ir.root is not None: extend the list by the events of the tree, assign
\* the missing ids.
Flatten ==
    /\ pc = "flatten"
    /\ Has(ir_root)
    /\ LET generated == GenerateEventList(Get(ir_root))
       IN  /\ Len(generated) <= max_events
           /\ event_list' = AssignIds(event_list \o generated, Len(generated))
    /\ pc' = "convert"
    /\ UNCHANGED <<ir_signals, input_list, sorted_events, idx,
                   current_frequency_map, oscillator_phase_cumulative,
                   oscillator_phase_sets, phase_reset_time>>
    /\ UNCHANGED outerVars

\* Variant: the error of generate_event_list is caught and the function goes
\* on with the start events.
FlattenFaultMutSwallowed ==
    /\ pc = "flatten"
    /\ Has(ir_root)
    /\ Len(GenerateEventList(Get(ir_root))) > max_events
    /\ pc' = "convert"
    /\ UNCHANGED <<ir_signals, input_list, event_list, sorted_events, idx,
                   current_frequency_map, oscillator_phase_cumulative,
                   oscillator_phase_sets, phase_reset_time>>
    /\ UNCHANGED outerVars
\* The tree holds more events than max_events: generate_event_list raises.
FlattenFault ==
    /\ pc = "flatten"
    /\ Has(ir_root)
    /\ Len(GenerateEventList(Get(ir_root))) > max_events
    /\ pc' = "fault"
    /\ UNCHANGED <<ir_signals, input_list, event_list, sorted_events, idx,
                   current_frequency_map, oscillator_phase_cumulative,
                   oscillator_phase_sets, phase_reset_time>>
    /\ UNCHANGED outerVars

\* ir.root is None: nothing is generated and no id is assigned.
FlattenNothing ==
    /\ pc = "flatten"
    /\ ~Has(ir_root)
    /\ pc' = "convert"
    /\ UNCHANGED <<ir_signals, input_list, event_list, sorted_events, idx,
                   current_frequency_map, oscillator_phase_cumulative,
                   oscillator_phase_sets, phase_reset_time>>
    /\ UNCHANGED outerVars

\* Variant: the time is converted twice.
ConvertTimeMutTwice ==
    /\ pc = "convert"
    /\ event_list' = [i \in 1..Len(event_list) |->
                        [event_list[i] EXCEPT !.time = @ * TINYSAMPLE * TINYSAMPLE]]
    /\ input_list' = event_list'
    /\ pc' = "freq_start"
    /\ UNCHANGED <<ir_signals, sorted_events, idx,
                   current_frequency_map, oscillator_phase_cumulative,
                   oscillator_phase_sets, phase_reset_time>>
    /\ UNCHANGED outerVars
\* event["time"] = event["time"] * TINYSAMPLE, and the call of
\* _calculate_osc_freq on the list.
ConvertTime ==
    /\ pc = "convert"
    /\ event_list' = [i \in 1..Len(event_list) |->
                        [event_list[i] EXCEPT !.time = @ * TINYSAMPLE]]
    /\ input_list' = event_list'
    /\ pc' = "freq_start"
    /\ UNCHANGED <<ir_signals, sorted_events, idx,
                   current_frequency_map, oscillator_phase_cumulative,
                   oscillator_phase_sets, phase_reset_time>>
    /\ UNCHANGED outerVars

\* _calculate_osc_phase(event_list, ir) on the list the frequency pass returned
CallPhase ==
    /\ pc = "freq_done"
    /\ pc' = "phase_start"
    /\ UNCHANGED <<ir_signals, input_list, event_list, sorted_events, idx,
                   current_frequency_map, oscillator_phase_cumulative,
                   oscillator_phase_sets, phase_reset_time>>
    /\ UNCHANGED outerVars

\* return event_list
Return ==
    /\ pc = "phase_done"
    /\ pc' = "returned"
    /\ UNCHANGED <<ir_signals, input_list, event_list, sorted_events, idx,
                   current_frequency_map, oscillator_phase_cumulative,
                   oscillator_phase_sets, phase_reset_time>>
    /\ UNCHANGED outerVars

\* s1 has any kind of oscillator, s2 a software oscillator; no QA device.
IrSignalMaps == FreqSignalMaps

\* kind, signal, increment_oscillator_phase, set_oscillator_phase, value
IrLeafVariants ==
    {<<PLAY_START, {"s1"}, NoField, NoField, NoField>>,
     <<PLAY_START, {"s1"}, Some(1), NoField, NoField>>,
     <<PLAY_START, {"s1"}, NoField, Some(5), NoField>>,
     <<PLAY_START, {"s2"}, NoField, NoField, NoField>>,
     <<RESET_SW_OSCILLATOR_PHASE, {}, NoField, NoField, NoField>>,
     <<SET_OSCILLATOR_FREQUENCY_START, {"s1"}, NoField, NoField, Some(0)>>,
     <<SET_OSCILLATOR_FREQUENCY_START, {"s2"}, NoField, NoField, Some(0)>>,
     <<INITIAL_OSCILLATOR_FREQUENCY, {"s1"}, NoField, NoField, Some(0)>>}

\* The leaves a root may hold, each at an offset from the root.
IrLeaves ==
    {[Event(NoId, v[1], t, v[2]) EXCEPT
         !.increment_oscillator_phase = v[3],
         !.set_oscillator_phase = v[4],
         !.value = v[5]] : v \in IrLeafVariants, t \in Times}

IrDeviceLists == {<< >>, <<"RESET", "UNKNOWN", "PLAIN", "RESET_LONG">>}

\* A budget below and one above what MaxEvents leaves can become.
MaxEventsChoices == {MaxEvents - 1, 2 * MaxEvents}

Init ==
    /\ ParamsIdle /\ ScheduleIdle
    /\ ir_signals \in IrSignalMaps
    /\ \/ ir_root = NoField
       \/ \E n \in 0..MaxEvents :
             \E l \in [1..n -> IrLeaves] : ir_root = Some(Numbered(l))
    /\ ir_devices \in IrDeviceLists
    /\ max_events \in MaxEventsChoices
    /\ input_list = << >>
    /\ event_list = << >>
    /\ pc = "start"
    /\ sorted_events = << >>
    /\ idx = 0
    /\ current_frequency_map = EmptyMap
    /\ oscillator_phase_cumulative = EmptyMap
    /\ oscillator_phase_sets = EmptyMap
    /\ phase_reset_time = 0

Next ==
    \/ CallStartEvents \/ Flatten \/ FlattenFault \/ FlattenNothing
    \/ ConvertTime
    \/ FreqSort \/ FreqStep \/ FreqReturn \/ FreqReturnFault
    \/ CallPhase
    \/ PhaseSort \/ PhaseReset \/ PhaseEvent \/ PhaseFault \/ PhaseReturn
    \/ Return

Spec == Init /\ [][Next]_vars

---------------------------------------------------------------------------
(* generate_event_list_from_ir on an IR whose events may name a signal     *)
(* that ir.signals does not hold.                                          *)

\* The maps of the pipeline, and the map that holds s2 alone.
LookupSignalMaps ==
    IrSignalMaps \cup {[s \in {"s2"} |-> SignalInfo("SW", FALSE)]}

LookupLeaves ==
    IrLeaves \cup {Event(NoId, DELAY_START, t, {"s1"}) : t \in Times}

InitLookup ==
    /\ ParamsIdle /\ ScheduleIdle
    /\ ir_signals \in LookupSignalMaps
    /\ \/ ir_root = NoField
       \/ \E n \in 0..MaxEvents :
             \E l \in [1..n -> LookupLeaves] : ir_root = Some(Numbered(l))
    /\ ir_devices \in IrDeviceLists
    /\ max_events \in MaxEventsChoices
    /\ input_list = << >>
    /\ event_list = << >>
    /\ pc = "start"
    /\ sorted_events = << >>
    /\ idx = 0
    /\ current_frequency_map = EmptyMap
    /\ oscillator_phase_cumulative = EmptyMap
    /\ oscillator_phase_sets = EmptyMap
    /\ phase_reset_time = 0

NextLookup ==
    \/ CallStartEvents \/ Flatten \/ FlattenFault \/ FlattenNothing
    \/ ConvertTime
    \/ FreqSort \/ FreqStep \/ FreqLookupFault \/ FreqReturn \/ FreqReturnFault
    \/ CallPhase
    \/ PhaseSort \/ PhaseReset \/ PhaseEvent \/ PhaseFault \/ PhaseLookupFault
    \/ PhaseReturn
    \/ Return

SpecLookup == InitLookup /\ [][NextLookup]_vars

---------------------------------------------------------------------------
(* passes/oscillator_parameters.py.  The IR tree is a sequence of nodes,   *)
(* the root first; a node holds its class, its children as pairs (offset   *)
(* in the parent, node), and, on a frequency node, its oscillators and     *)
(* values.                                                                 *)

SetOscillatorFrequencyIR == "SetOscillatorFrequencyIR"
InitialOscillatorFrequencyIR == "InitialOscillatorFrequencyIR"
RootScheduleIR == "RootScheduleIR"
SectionIR == "SectionIR"

\* The oscillators of the tree: is_hardware and the signals they modulate.
Oscillators ==
    [sw |-> [is_hardware |-> FALSE, signals |-> {"s1", "s2"}],
     hw |-> [is_hardware |-> TRUE, signals |-> {"s2", "s3"}]]

TreeSignals == {"s1", "s2", "s3"}

\* Variant: the pairs with a hardware oscillator are recorded too.
RECURSIVE AppendObservationsMutHardwareToo(_, _, _, _)
AppendObservationsMutHardwareToo(series, node, start, k) ==
    IF k > Len(node.oscillators) \/ k > Len(node.values) THEN series
    ELSE LET osc == Oscillators[node.oscillators[k]]
             appended ==
                 [sig \in DOMAIN series \cup osc.signals |->
                    IF sig \in osc.signals
                    THEN Append(GetOr(series, sig, << >>),
                                <<start, node.values[k]>>)
                    ELSE series[sig]]
         IN  AppendObservationsMutHardwareToo(appended, node, start, k + 1)
\* The entries visit_SetOscillatorFrequencyIR appends for the pairs
\* k..Len(oscillators) of the node: series is _sw_osc_times.
RECURSIVE AppendObservations(_, _, _, _)
AppendObservations(series, node, start, k) ==
    IF k > Len(node.oscillators) \/ k > Len(node.values) THEN series
    ELSE LET osc == Oscillators[node.oscillators[k]]
             appended ==
                 IF osc.is_hardware THEN series
                 ELSE [sig \in DOMAIN series \cup osc.signals |->
                         IF sig \in osc.signals
                         THEN Append(GetOr(series, sig, << >>),
                                     <<start, node.values[k]>>)
                         ELSE series[sig]]
         IN  AppendObservations(appended, node, start, k + 1)

\* run: self.visit(node, 0)
Run ==
    /\ pc = "run"
    /\ visit_stack' = <<[node |-> 1, start |-> 0]>>
    /\ sw_osc_times' = EmptyMap
    /\ pc' = "visit"
    /\ UNCHANGED <<tree, freq_by_signal, mins, answer>>
    /\ UNCHANGED <<passVars_but_pc, irVars, scheduleVars>>

\* generic_visit: visit the children in order, each at start + start_ch.
GenericVisit ==
    /\ pc = "visit"
    /\ visit_stack # << >>
    /\ LET call == Head(visit_stack)
           node == tree[call.node]
       IN  /\ node.cls \notin {SetOscillatorFrequencyIR,
                                InitialOscillatorFrequencyIR}
           /\ visit_stack' =
                 [c \in 1..Len(node.children) |->
                    [node |-> node.children[c][2],
                     start |-> call.start + node.children[c][1]]]
                 \o Tail(visit_stack)
    /\ UNCHANGED <<pc, tree, sw_osc_times, freq_by_signal, mins, answer>>
    /\ UNCHANGED <<passVars_but_pc, irVars, scheduleVars>>

VisitSetOscillatorFrequencyIR ==
    /\ pc = "visit"
    /\ visit_stack # << >>
    /\ LET call == Head(visit_stack)
           node == tree[call.node]
       IN  /\ node.cls = SetOscillatorFrequencyIR
           /\ sw_osc_times' =
                 AppendObservations(sw_osc_times, node, call.start, 1)
    /\ visit_stack' = Tail(visit_stack)
    /\ UNCHANGED <<pc, tree, freq_by_signal, mins, answer>>
    /\ UNCHANGED <<passVars_but_pc, irVars, scheduleVars>>

VisitInitialOscillatorFrequencyIR ==
    /\ pc = "visit"
    /\ visit_stack # << >>
    /\ LET call == Head(visit_stack)
           node == tree[call.node]
       IN  /\ node.cls = InitialOscillatorFrequencyIR
           /\ sw_osc_times' =
                 AppendObservations(sw_osc_times, node, call.start, 1)
    /\ visit_stack' = Tail(visit_stack)
    /\ UNCHANGED <<pc, tree, freq_by_signal, mins, answer>>
    /\ UNCHANGED <<passVars_but_pc, irVars, scheduleVars>>

\* Variant: an observation goes before the observations of its own time.
ObsInsertMutBeforeTies(sorted, obs) ==
    LET k == Cardinality({p \in 1..Len(sorted) : sorted[p][1] < obs[1]})
    IN  SubSeq(sorted, 1, k) \o <<obs>> \o SubSeq(sorted, k + 1, Len(sorted))
\* sorted(v, key=lambda x: x[0]): the place of an observation in the sorted
\* prefix is after the observations of a time not later than its own.
ObsInsert(sorted, obs) ==
    LET k == Cardinality({p \in 1..Len(sorted) : sorted[p][1] <= obs[1]})
    IN  SubSeq(sorted, 1, k) \o <<obs>> \o SubSeq(sorted, k + 1, Len(sorted))

RECURSIVE ObsSortPrefix(_, _)
ObsSortPrefix(v, n) ==
    IF n = 0 THEN << >> ELSE ObsInsert(ObsSortPrefix(v, n - 1), v[n])

\* {time: freq for time, freq in sorted}: a later pair of the same time
\* replaces the earlier one.
RECURSIVE DictPrefix(_, _)
DictPrefix(sorted, n) ==
    IF n = 0 THEN EmptyMap
    ELSE Put(DictPrefix(sorted, n - 1), sorted[n][1], sorted[n][2])

\* NearestDict({...sorted(v)...}, rounding=NEAREST_PREV), as the dict it holds
NearestDict(v) ==
    LET sorted == ObsSortPrefix(v, Len(v)) IN DictPrefix(sorted, Len(sorted))

\* vals.keys()[0]: the least key of the sorted dict
FirstKey(d) == CHOOSE t \in DOMAIN d : \A u \in DOMAIN d : t <= u

\* d[time] with rounding NEAREST_PREV, for time >= the least key: the value
\* at the greatest key not above time.
NearestPrev(d, time) ==
    d[CHOOSE t \in DOMAIN d :
        t <= time /\ \A u \in DOMAIN d : u <= time => u <= t]

\* run returns the series; OscillatorParameters.__init__ on them.
NewOscillatorParameters ==
    /\ pc = "visit"
    /\ visit_stack = << >>
    /\ freq_by_signal' =
          [k \in DOMAIN sw_osc_times |-> NearestDict(sw_osc_times[k])]
    /\ mins' = [sig \in DOMAIN sw_osc_times |->
                   FirstKey(NearestDict(sw_osc_times[sig]))]
    /\ pc' = "query"
    /\ UNCHANGED <<tree, visit_stack, sw_osc_times, answer>>
    /\ UNCHANGED <<passVars_but_pc, irVars, scheduleVars>>

\* freq_keys()
FreqKeys == DOMAIN freq_by_signal

QueryTimes == 0..(MaxOffset * MaxNodes)

\* freq_at(identifier, time), self._mins[identifier] found
FreqAt ==
    /\ pc = "query"
    /\ \E identifier \in TreeSignals, time \in QueryTimes :
          /\ identifier \in DOMAIN mins
          /\ answer' = Some([identifier |-> identifier, time |-> time,
                             raised |-> FALSE,
                             result |->
                                IF time < mins[identifier] THEN NoField
                                ELSE Some(NearestPrev(freq_by_signal[identifier],
                                                      time))])
    /\ UNCHANGED <<pc, tree, visit_stack, sw_osc_times, freq_by_signal, mins>>
    /\ UNCHANGED <<passVars_but_pc, irVars, scheduleVars>>

\* freq_at(identifier, time), self._mins[identifier] raises KeyError
FreqAtKeyError ==
    /\ pc = "query"
    /\ \E identifier \in TreeSignals, time \in QueryTimes :
          /\ identifier \notin DOMAIN mins
          /\ answer' = Some([identifier |-> identifier, time |-> time,
                             raised |-> TRUE, result |-> NoField])
    /\ UNCHANGED <<pc, tree, visit_stack, sw_osc_times, freq_by_signal, mins>>
    /\ UNCHANGED <<passVars_but_pc, irVars, scheduleVars>>

\* The oscillators of a frequency node.
OscillatorLists == {<<"sw">>, <<"hw">>, <<"sw", "hw">>, <<"sw", "sw">>}

\* What a node below the root may be: class, parent, offset, oscillators.
NodeForms ==
    {[cls |-> SectionIR, parent |-> p, offset |-> o, oscillators |-> << >>] :
        p \in 1..MaxNodes, o \in 0..MaxOffset}
    \cup {[cls |-> c, parent |-> p, offset |-> o, oscillators |-> l] :
            c \in {SetOscillatorFrequencyIR, InitialOscillatorFrequencyIR},
            p \in 1..MaxNodes, o \in 0..MaxOffset, l \in OscillatorLists}

\* shape[i] is the form of node i + 1.  The parent of a node comes before
\* it and is the root or a section.
ShapeOk(shape) ==
    \A i \in 1..Len(shape) :
        /\ shape[i].parent <= i
        /\ IF shape[i].parent = 1 THEN TRUE
           ELSE shape[shape[i].parent - 1].cls = SectionIR

\* The children of node n, in the order of the nodes.
ChildrenOf(shape, n) ==
    SelectSeq([i \in 1..Len(shape) |-> i], LAMBDA i : shape[i].parent = n)

\* The tree of a shape; the value of pair k of node n is 10 * n + k.
TreeOf(shape) ==
    [n \in 1..(Len(shape) + 1) |->
        [cls |-> IF n = 1 THEN RootScheduleIR ELSE shape[n - 1].cls,
         children |-> [c \in 1..Len(ChildrenOf(shape, n)) |->
                         <<shape[ChildrenOf(shape, n)[c]].offset,
                           ChildrenOf(shape, n)[c] + 1>>],
         oscillators |-> IF n = 1 THEN << >> ELSE shape[n - 1].oscillators,
         values |-> IF n = 1 THEN << >>
                    ELSE [k \in 1..Len(shape[n - 1].oscillators) |->
                            10 * n + k]]]

InitParams ==
    /\ IrIdle /\ ScheduleIdle
    /\ ir_signals = EmptyMap /\ input_list = << >> /\ event_list = << >>
    /\ sorted_events = << >> /\ idx = 0
    /\ current_frequency_map = EmptyMap
    /\ oscillator_phase_cumulative = EmptyMap
    /\ oscillator_phase_sets = EmptyMap
    /\ phase_reset_time = 0
    /\ \E n \in 0..MaxNodes :
          \E shape \in [1..n -> NodeForms] :
              ShapeOk(shape) /\ tree = TreeOf(shape)
    /\ visit_stack = << >>
    /\ sw_osc_times = EmptyMap
    /\ freq_by_signal = EmptyMap
    /\ mins = EmptyMap
    /\ answer = NoField
    /\ pc = "run"

NextParams ==
    \/ Run \/ GenericVisit
    \/ VisitSetOscillatorFrequencyIR \/ VisitInitialOscillatorFrequencyIR
    \/ NewOscillatorParameters
    \/ FreqAt \/ FreqAtKeyError

SpecParams == InitParams /\ [][NextParams]_vars

---------------------------------------------------------------------------
(* scheduler/schedule_data.py.  The scheduler fills the three dicts of a   *)
(* ScheduleData during a run and calls reset() between runs; pc names the  *)
(* last operation.  cached_since_reset is the log of the (signal, pulse)   *)
(* pairs put into the cache since the last reset().                        *)

Daos == 1..2
Trackers == 1..2
Pulses == 1..2
ScheduleSignals == {"s1", "s2"}
WarningKeys == {"w1", "w2"}

\* ScheduleData(experiment_dao, sampling_rate_tracker): the dicts are empty.
InitSchedule ==
    /\ IrIdle /\ ParamsIdle
    /\ ir_signals = EmptyMap /\ input_list = << >> /\ event_list = << >>
    /\ sorted_events = << >> /\ idx = 0
    /\ current_frequency_map = EmptyMap
    /\ oscillator_phase_cumulative = EmptyMap
    /\ oscillator_phase_sets = EmptyMap
    /\ phase_reset_time = 0
    /\ experiment_dao \in Daos
    /\ sampling_rate_tracker \in Trackers
    /\ acquire_pulses = EmptyMap
    /\ signal_objects = EmptyMap
    /\ combined_warnings = EmptyMap
    /\ cached_since_reset = << >>
    /\ pc = "new"

\* acquire_pulses.setdefault(signal, []).append(pulse)
CacheAcquirePulse ==
    /\ pc \in {"new", "reset", "cache", "register", "warn"}
    /\ Len(cached_since_reset) < MaxCached
    /\ \E signal \in ScheduleSignals, pulse \in Pulses :
          /\ acquire_pulses' =
                Put(acquire_pulses, signal,
                    Append(GetOr(acquire_pulses, signal, << >>), pulse))
          /\ cached_since_reset' = Append(cached_since_reset, <<signal, pulse>>)
    /\ pc' = "cache"
    /\ UNCHANGED <<experiment_dao, sampling_rate_tracker, signal_objects,
                   combined_warnings>>
    /\ UNCHANGED <<passVars_but_pc, irVars, paramVars>>

\* signal_objects[signal] = signal_obj
RegisterSignal ==
    /\ pc \in {"new", "reset", "cache", "register", "warn"}
    /\ \E signal \in ScheduleSignals, signal_obj \in 1..2 :
          signal_objects' = Put(signal_objects, signal, signal_obj)
    /\ pc' = "register"
    /\ UNCHANGED <<experiment_dao, sampling_rate_tracker, acquire_pulses,
                   combined_warnings, cached_since_reset>>
    /\ UNCHANGED <<passVars_but_pc, irVars, paramVars>>

\* combined_warnings[key] = (callback, arguments)
AddWarning ==
    /\ pc \in {"new", "reset", "cache", "register", "warn"}
    /\ \E key \in WarningKeys, callback \in 1..2 :
          combined_warnings' = Put(combined_warnings, key, <<callback, << >> >>)
    /\ pc' = "warn"
    /\ UNCHANGED <<experiment_dao, sampling_rate_tracker, acquire_pulses,
                   signal_objects, cached_since_reset>>
    /\ UNCHANGED <<passVars_but_pc, irVars, paramVars>>

\* Variant: reset() empties the signal registry as well.
ResetMutClearsRegistry ==
    /\ pc \in {"new", "reset", "cache", "register", "warn"}
    /\ acquire_pulses' = EmptyMap
    /\ signal_objects' = EmptyMap
    /\ cached_since_reset' = << >>
    /\ pc' = "reset"
    /\ UNCHANGED <<experiment_dao, sampling_rate_tracker, combined_warnings>>
    /\ UNCHANGED <<passVars_but_pc, irVars, paramVars>>
\* reset(): self.acquire_pulses = {}
Reset ==
    /\ pc \in {"new", "reset", "cache", "register", "warn"}
    /\ acquire_pulses' = EmptyMap
    /\ cached_since_reset' = << >>
    /\ pc' = "reset"
    /\ UNCHANGED <<experiment_dao, sampling_rate_tracker, signal_objects,
                   combined_warnings>>
    /\ UNCHANGED <<passVars_but_pc, irVars, paramVars>>

NextSchedule == CacheAcquirePulse \/ RegisterSignal \/ AddWarning \/ Reset

SpecSchedule == InitSchedule /\ [][NextSchedule]_vars

---------------------------------------------------------------------------
(* Vocabulary of the properties.  The input list is numbered by position:  *)
(* the event at position j has id j - 1, so an event of the output is      *)
(* found in the input by its id.                                          *)

IsPlayOrAcquire(e) == e.event_type \in {PLAY_START, ACQUIRE_START}

IsPulse(e) == e.event_type \in {PLAY_START, ACQUIRE_START, DELAY_START}

\* The signal has no hardware oscillator (a software one, or none at all).
NotHardware(s) == ir_signals[s].oscillator # "HW"

Positions(list) == 1..Len(list)

\* The event with this id is in the current list.
Present(id) == \E i \in Positions(event_list) : event_list[i].id = id

\* SET_OSCILLATOR_FREQUENCY_START events of the input on signal s at time t
SetsAt(s, t) ==
    {j \in Positions(input_list) :
        /\ input_list[j].event_type = SET_OSCILLATOR_FREQUENCY_START
        /\ s \in input_list[j].signal
        /\ input_list[j].time = t}

\* The greatest element of a non-empty set of positions.
Last(S) == CHOOSE j \in S : \A k \in S : k <= j

\* Frequency-defining events of the input on signal s at or before time t
DefiningUpTo(s, t) ==
    {j \in Positions(input_list) :
        /\ input_list[j].event_type \in {SET_OSCILLATOR_FREQUENCY_START,
                                          INITIAL_OSCILLATOR_FREQUENCY}
        /\ s \in input_list[j].signal
        /\ input_list[j].time <= t}

DefiningRank(j) ==
    IF input_list[j].event_type = INITIAL_OSCILLATOR_FREQUENCY THEN 0 ELSE 1

\* j comes after k in (time, priority) order, ties kept in input order.
DefiningAfter(j, k) ==
    \/ input_list[j].time > input_list[k].time
    \/ /\ input_list[j].time = input_list[k].time
       /\ \/ DefiningRank(j) > DefiningRank(k)
          \/ DefiningRank(j) = DefiningRank(k) /\ j > k

LastDefining(S) == CHOOSE j \in S : \A k \in S \ {j} : DefiningAfter(j, k)

---------------------------------------------------------------------------
(* Properties of the frequency pass (SpecFreq) *)

\* C1, as stated: after the frequency pass, a play/acquire event on a
\* software-oscillator signal s carries the value of every
\* SET_OSCILLATOR_FREQUENCY_START event on s that has the play's time.
C1_StampedWithEveryTiedSet ==
    pc = "freq_done" =>
        \A i \in Positions(event_list) :
            IsPlayOrAcquire(event_list[i]) =>
                \A s \in event_list[i].signal :
                    NotHardware(s) =>
                        \A j \in SetsAt(s, event_list[i].time) :
                            event_list[i].oscillator_frequency = input_list[j].value

\* C1, amended: after the frequency pass, a play/acquire event on a
\* software-oscillator signal s that shares its time with
\* SET_OSCILLATOR_FREQUENCY_START events on s carries the value of the last
\* of them in the input list, wherever the play stands in that list.
C1_StampedWithLastTiedSet ==
    pc = "freq_done" =>
        \A i \in Positions(event_list) :
            IsPlayOrAcquire(event_list[i]) =>
                \A s \in event_list[i].signal :
                    (NotHardware(s) /\ SetsAt(s, event_list[i].time) # {}) =>
                        event_list[i].oscillator_frequency =
                            input_list[Last(SetsAt(s, event_list[i].time))].value

\* A play that precedes, in the input list, a set at its own time, with an
\* older frequency on record for the signal.
C1_Witness ==
    /\ pc = "freq_done"
    /\ \E i \in Positions(event_list) :
          /\ IsPlayOrAcquire(event_list[i])
          /\ \E s \in event_list[i].signal :
                /\ NotHardware(s)
                /\ \E j \in SetsAt(s, event_list[i].time) :
                      input_list[j].id > event_list[i].id
                /\ \E k \in DefiningUpTo(s, event_list[i].time) :
                      input_list[k].time < event_list[i].time

\* C2: after the frequency pass, a play/acquire event on a signal without a
\* hardware oscillator carries the value of the last frequency-defining
\* event on that signal at or before its time (INITIAL before SET at equal
\* times, input order among equals), and no oscillator_frequency when there
\* is no such event.
C2_FrequencyOfLastDefiningEvent ==
    pc = "freq_done" =>
        \A i \in Positions(event_list) :
            IsPlayOrAcquire(event_list[i]) =>
                \A s \in event_list[i].signal :
                    NotHardware(s) =>
                        LET D == DefiningUpTo(s, event_list[i].time)
                        IN  IF D = {}
                            THEN event_list[i].oscillator_frequency = NoField
                            ELSE event_list[i].oscillator_frequency =
                                    input_list[LastDefining(D)].value

\* An INITIAL and a SET event at the play's own time, the SET first in the
\* input list.
C2_Witness ==
    /\ pc = "freq_done"
    /\ \E i \in Positions(event_list) :
          /\ IsPlayOrAcquire(event_list[i])
          /\ \E s \in event_list[i].signal :
                /\ NotHardware(s)
                /\ \E j, k \in DefiningUpTo(s, event_list[i].time) :
                      /\ j < k
                      /\ DefiningRank(j) = 1 /\ DefiningRank(k) = 0
                      /\ input_list[j].time = event_list[i].time
                      /\ input_list[k].time = event_list[i].time

\* The START event an END event of the input refers to.
StartOf(j) ==
    CHOOSE k \in Positions(input_list) :
        input_list[k].id = Get(input_list[j].chain_element_id)

Ends == {j \in Positions(input_list) :
            input_list[j].event_type = SET_OSCILLATOR_FREQUENCY_END}

Unchanged(j) ==
    \E i \in Positions(event_list) : event_list[i] = input_list[j]

\* C8: in the output of the frequency pass an END event is absent exactly
\* when its START is absent; a pair on software oscillators only is absent,
\* and a pair on hardware oscillators only is present, both events unchanged.
C8_EndFollowsStart ==
    pc = "freq_done" =>
        \A j \in Ends :
            LET start == input_list[StartOf(j)]
            IN  /\ ~Present(input_list[j].id) <=> ~Present(start.id)
                /\ (\A s \in start.signal : NotHardware(s)) =>
                      ~Present(input_list[j].id) /\ ~Present(start.id)
                /\ (\A s \in start.signal : ~NotHardware(s)) =>
                      Unchanged(j) /\ Unchanged(StartOf(j))

\* A pair whose START (and so whose END) was removed.
C8_Witness ==
    /\ pc = "freq_done"
    /\ \E j \in Ends :
          ~Present(input_list[j].id) /\ ~Present(input_list[StartOf(j)].id)

\* C9: the frequency pass removes a SET_OSCILLATOR_FREQUENCY_START event
\* exactly when one of its signals has no hardware oscillator.
C9_StartRemovedIffSoftwareTarget ==
    pc = "freq_done" =>
        \A j \in Positions(input_list) :
            input_list[j].event_type = SET_OSCILLATOR_FREQUENCY_START =>
                (~Present(input_list[j].id) <=>
                    \E s \in input_list[j].signal : NotHardware(s))

\* A START on a hardware and a software signal, removed.
C9_Witness ==
    /\ pc = "freq_done"
    /\ \E j \in Positions(input_list) :
          /\ input_list[j].event_type = SET_OSCILLATOR_FREQUENCY_START
          /\ \E s \in input_list[j].signal : NotHardware(s)
          /\ \E s \in input_list[j].signal : ~NotHardware(s)
          /\ ~Present(input_list[j].id)

\* C10: the list the frequency pass returns holds no
\* INITIAL_OSCILLATOR_FREQUENCY event.
C10_NoInitialLeft ==
    pc = "freq_done" =>
        \A i \in Positions(event_list) :
            event_list[i].event_type # INITIAL_OSCILLATOR_FREQUENCY

\* The input held an INITIAL event on a hardware-oscillator signal.
C10_Witness ==
    /\ pc = "freq_done"
    /\ \E j \in Positions(input_list) :
          /\ input_list[j].event_type = INITIAL_OSCILLATOR_FREQUENCY
          /\ \E s \in input_list[j].signal : ~NotHardware(s)

\* C14: the list the frequency pass returns is the function FreqResult of
\* its input, and the pass run again on that list returns the same list:
\* the same events, each play and acquire event with the
\* oscillator_frequency the first run stamped.
C14_FreqIdempotent ==
    /\ pc = "freq_done" => event_list = FreqResult(input_list)
    /\ pc = "freq_rerun_done" => event_list = FreqResult(input_list)

\* After the second run: a play stamped in the first run by a step that was
\* removed, later than a surviving step on a hardware signal.
C14_Witness ==
    /\ pc = "freq_rerun_done"
    /\ \E i, k \in Positions(event_list) :
          /\ IsPlayOrAcquire(event_list[i])
          /\ Has(event_list[i].oscillator_frequency)
          /\ event_list[k].event_type = SET_OSCILLATOR_FREQUENCY_START
          /\ event_list[k].time < event_list[i].time
          /\ \E j \in Positions(input_list) :
                /\ input_list[j].event_type = SET_OSCILLATOR_FREQUENCY_START
                /\ ~Present(input_list[j].id)
                /\ input_list[j].value = event_list[i].oscillator_frequency

\* The event targets signals, and only signals with a hardware oscillator.
HardwareOnly(e) == e.signal # {} /\ \A s \in e.signal : ~NotHardware(s)

\* C11, as stated: every event of the input of the frequency pass that
\* targets only hardware-oscillator signals, of whatever kind, is in the
\* returned list.
C11_HardwareOnlyNeverRemoved ==
    pc = "freq_done" =>
        \A j \in Positions(input_list) :
            HardwareOnly(input_list[j]) => Present(input_list[j].id)

\* C11, amended: every event of the input of the frequency pass that
\* targets only hardware-oscillator signals and is not an
\* INITIAL_OSCILLATOR_FREQUENCY event is in the returned list, as it was.
C11_HardwareOnlyKeptButInitial ==
    pc = "freq_done" =>
        \A j \in Positions(input_list) :
            (/\ HardwareOnly(input_list[j])
             /\ input_list[j].event_type # INITIAL_OSCILLATOR_FREQUENCY)
                => Unchanged(j)

\* A START on a hardware signal only, with its END, next to a START that
\* was removed.
C11_Witness ==
    /\ pc = "freq_done"
    /\ \E j \in Ends :
          /\ HardwareOnly(input_list[j])
          /\ HardwareOnly(input_list[StartOf(j)])
    /\ \E k \in Positions(input_list) :
          /\ input_list[k].event_type = SET_OSCILLATOR_FREQUENCY_START
          /\ ~Present(input_list[k].id)

---------------------------------------------------------------------------
(* Vocabulary of the phase properties.  The phase pass keeps every event   *)
(* at its position, so position j of the input is position j of the list.  *)

IsReset(j) == input_list[j].event_type = RESET_SW_OSCILLATOR_PHASE

\* j is resolved before k: earlier time, or the same time with a reset
\* before a pulse, or the same time and kind and earlier in the input.
PhaseBefore(j, k) ==
    \/ input_list[j].time < input_list[k].time
    \/ /\ input_list[j].time = input_list[k].time
       /\ \/ IsReset(j) /\ ~IsReset(k)
          \/ (IsReset(j) <=> IsReset(k)) /\ j < k

\* The events resolved up to and including the pulse at position p.
PhaseUpTo(p) ==
    {j \in Positions(input_list) :
        /\ IsReset(j) \/ IsPulse(input_list[j])
        /\ j = p \/ PhaseBefore(j, p)}

LastResolved(S) == CHOOSE j \in S : \A k \in S \ {j} : PhaseBefore(k, j)

OnSignal(j, s) == IsPulse(input_list[j]) /\ s \in input_list[j].signal

ResetsIn(S) == {j \in S : IsReset(j)}

SetsIn(S, s) ==
    {j \in S : OnSignal(j, s) /\ Has(input_list[j].set_oscillator_phase)}

\* The pulses of S on s that carry an increment, resolved after mark m
\* (every one of them when m = 0, no mark).
IncrementsAfter(S, s, m) ==
    {j \in S : /\ OnSignal(j, s)
               /\ Has(input_list[j].increment_oscillator_phase)
               /\ m = 0 \/ PhaseBefore(m, j)}

RECURSIVE SumIncrements(_)
SumIncrements(S) ==
    IF S = {} THEN 0
    ELSE LET j == CHOOSE k \in S : TRUE
         IN  Get(input_list[j].increment_oscillator_phase)
                + SumIncrements(S \ {j})

TimeOfLast(S) == IF S = {} THEN 0 ELSE input_list[LastResolved(S)].time

\* reference_time: the later of the last reset and the signal's last set
ReferenceTime(S, s) == Max(TimeOfLast(ResetsIn(S)), TimeOfLast(SetsIn(S, s)))

\* The signal's accumulated phase since the last reset or set of S: the
\* value of the set, if a set is the last of them, and the increments since.
Accumulated(S, s) ==
    LET marks == ResetsIn(S) \cup SetsIn(S, s)
        m == IF marks = {} THEN 0 ELSE LastResolved(marks)
        base == IF m # 0 /\ ~IsReset(m)
                THEN Get(input_list[m].set_oscillator_phase) ELSE 0
    IN  base + SumIncrements(IncrementsAfter(S, s, m))

FrequencyOf(e) ==
    IF Has(e.oscillator_frequency) THEN Get(e.oscillator_frequency) ELSE 0

\* Pulses on a signal without hardware oscillator on a device that is not QA
Resolved(i) ==
    /\ IsPlayOrAcquire(event_list[i])
    /\ \A s \in event_list[i].signal : NotHardware(s) /\ ~ir_signals[s].qa

SameFrequency(s) ==
    \A j, k \in Positions(input_list) :
        (/\ IsPlayOrAcquire(input_list[j]) /\ s \in input_list[j].signal
         /\ IsPlayOrAcquire(input_list[k]) /\ s \in input_list[k].signal)
            => FrequencyOf(input_list[j]) = FrequencyOf(input_list[k])

AllResolved == {j \in Positions(input_list) : IsReset(j) \/ IsPulse(input_list[j])}

\* The events the sweep has passed that define the frequency of signal s:
\* a SET_OSCILLATOR_FREQUENCY_START on s, whatever the oscillator, or an
\* INITIAL_OSCILLATOR_FREQUENCY on s when the oscillator is not hardware.
SweptDefining(s) ==
    {k \in 1..idx :
        LET e == event_list[sorted_events[k]]
        IN  /\ s \in e.signal
            /\ \/ e.event_type = SET_OSCILLATOR_FREQUENCY_START
               \/ e.event_type = INITIAL_OSCILLATOR_FREQUENCY /\ ~IsHwOsc(s)}

\* C24, as stated: in every state of the frequency sweep the map of current
\* frequencies holds no entry for a signal with a hardware oscillator.
C24_NoHardwareEntry ==
    pc = "freq_loop" =>
        \A s \in DOMAIN current_frequency_map : ~IsHwOsc(s)

\* C24, amended: in every state of the frequency sweep the map holds, for
\* each signal, the value of the last event passed that is a
\* SET_OSCILLATOR_FREQUENCY_START on the signal (hardware or not) or an
\* INITIAL_OSCILLATOR_FREQUENCY on it with an oscillator that is not
\* hardware, and no entry when there is none; the entry of a hardware signal
\* is never stamped: no play or acquire on a hardware signal has an
\* oscillator_frequency.
C24_HardwareEntryOnlyFromSet ==
    pc = "freq_loop" =>
        /\ \A s \in SignalIds :
              IF SweptDefining(s) = {}
              THEN s \notin DOMAIN current_frequency_map
              ELSE /\ s \in DOMAIN current_frequency_map
                   /\ current_frequency_map[s] =
                         Get(event_list[sorted_events[Last(SweptDefining(s))]].value)
        /\ \A i \in 1..Len(event_list) :
              (IsPlayOrAcquire(event_list[i]) /\ HardwareOnly(event_list[i]))
                 => ~Has(event_list[i].oscillator_frequency)

\* The sweep has passed a SET_OSCILLATOR_FREQUENCY_START and then a play on
\* a hardware signal: the map holds the signal, the play has no frequency.
C24_Witness ==
    /\ pc = "freq_loop"
    /\ \E s \in DOMAIN current_frequency_map :
          /\ IsHwOsc(s)
          /\ \E k \in 1..idx :
                /\ event_list[sorted_events[k]].event_type = PLAY_START
                /\ event_list[sorted_events[k]].signal = {s}
                /\ SweptDefining(s) \cap 1..(k - 1) # {}

---------------------------------------------------------------------------
(* Properties of the phase pass (SpecPhase) *)

\* C12: in every state of the phase pass the event list holds the events of
\* the input, each at its position with its id, kind, time and signal, and
\* an event that is not a PLAY_START, DELAY_START, ACQUIRE_START or
\* RESET_SW_OSCILLATOR_PHASE event is as it was in the input.
C12_PhaseKeepsEvents ==
    /\ Len(event_list) = Len(input_list)
    /\ \A j \in Positions(input_list) :
          /\ event_list[j].id = input_list[j].id
          /\ event_list[j].event_type = input_list[j].event_type
          /\ event_list[j].time = input_list[j].time
          /\ event_list[j].signal = input_list[j].signal
          /\ (~IsPulse(input_list[j]) /\ ~IsReset(j))
                => event_list[j] = input_list[j]

\* After the pass: an event of another kind on a signal and at a time at
\* which a pulse got its phase.
C12_Witness ==
    /\ pc = "phase_done"
    /\ \E j, k \in Positions(input_list) :
          /\ ~IsPulse(input_list[j]) /\ ~IsReset(j)
          /\ IsPulse(input_list[k])
          /\ input_list[j].signal = input_list[k].signal
          /\ input_list[j].time = input_list[k].time
          /\ j < k
          /\ event_list[k] # input_list[k]

\* The general formula of C3: oscillator_phase =
\* (time - reference_time) * 2*pi * frequency + cumulative_increment.
PhaseFormula ==
    \A i \in Positions(event_list) :
        Resolved(i) =>
            \A s \in event_list[i].signal :
                event_list[i].oscillator_phase =
                    Some(Phase((event_list[i].time - ReferenceTime(PhaseUpTo(i), s))
                                  * FrequencyOf(event_list[i]),
                               Accumulated(PhaseUpTo(i), s)))

\* C3, as stated: after the phase pass the general formula holds, and with
\* a single frequency f, no resets and last set (t0, phi0) of the signal,
\* the phase of every play at t >= t0 is 2*pi*f*(t - t0) + phi0.
C3_PhaseFormulaAndContinuity ==
    pc = "phase_done" =>
        /\ PhaseFormula
        /\ \A i \in Positions(event_list) :
              Resolved(i) =>
                  \A s \in event_list[i].signal :
                      LET sets == SetsIn(AllResolved, s)
                          last == LastResolved(sets)
                      IN  (/\ ResetsIn(AllResolved) = {}
                           /\ SameFrequency(s)
                           /\ sets # {}
                           /\ event_list[i].time >= input_list[last].time)
                          => event_list[i].oscillator_phase =
                                Some(Phase((event_list[i].time - input_list[last].time)
                                              * FrequencyOf(event_list[i]),
                                           Get(input_list[last].set_oscillator_phase)))

\* C3, amended: after the phase pass the general formula holds, and with a
\* single frequency f, no resets and last set (t0, phi0) of the signal, the
\* phase of a play resolved at or after that set, with no increment of the
\* signal absorbed since the set, is 2*pi*f*(t - t0) + phi0.
C3_PhaseFormulaAndContinuityNoIncrement ==
    pc = "phase_done" =>
        /\ PhaseFormula
        /\ \A i \in Positions(event_list) :
              Resolved(i) =>
                  \A s \in event_list[i].signal :
                      LET sets == SetsIn(AllResolved, s)
                          last == LastResolved(sets)
                      IN  (/\ ResetsIn(AllResolved) = {}
                           /\ SameFrequency(s)
                           /\ sets # {}
                           /\ last \in PhaseUpTo(i)
                           /\ IncrementsAfter(PhaseUpTo(i), s, last) = {})
                          => event_list[i].oscillator_phase =
                                Some(Phase((event_list[i].time - input_list[last].time)
                                              * FrequencyOf(event_list[i]),
                                           Get(input_list[last].set_oscillator_phase)))

\* A play with a frequency, later than a set of its signal at a time other
\* than 0, with a reset resolved before the play.
C3_Witness ==
    /\ pc = "phase_done"
    /\ \E i \in Positions(event_list) :
          /\ Resolved(i)
          /\ FrequencyOf(event_list[i]) # 0
          /\ ResetsIn(PhaseUpTo(i)) # {}
          /\ \E s \in event_list[i].signal :
                /\ SetsIn(PhaseUpTo(i), s) # {}
                /\ TimeOfLast(SetsIn(PhaseUpTo(i), s)) > 0
                /\ TimeOfLast(SetsIn(PhaseUpTo(i), s)) < event_list[i].time

\* C4: a reset is global.  In every state of the sweep, a signal with no
\* set resolved since the last reset resolved has its increments counted
\* from zero since that reset and the reset's time as reference time; and
\* after the pass a pulse with a reset at or before its time, whatever the
\* input order, and no set of its signal since, has the phase counted from
\* that reset.
C4_ResetIsGlobal ==
    /\ pc = "phase_loop" =>
          LET done == {sorted_events[k] : k \in 1..idx}
              resets == ResetsIn(done)
          IN  resets # {} =>
                \A s \in SignalIds :
                    (\A q \in SetsIn(done, s) : PhaseBefore(q, LastResolved(resets)))
                    => /\ GetOr(oscillator_phase_cumulative, s, 0) =
                             IF NotHardware(s)
                             THEN SumIncrements(
                                    IncrementsAfter(done, s, LastResolved(resets)))
                             ELSE 0
                       /\ Max(phase_reset_time, GetOr(oscillator_phase_sets, s, 0))
                             = input_list[LastResolved(resets)].time
    /\ pc = "phase_done" =>
          \A i \in Positions(event_list) :
              Resolved(i) =>
                  \A s \in event_list[i].signal :
                      LET resets == {j \in Positions(input_list) :
                                        /\ IsReset(j)
                                        /\ input_list[j].time <= event_list[i].time}
                          r == LastResolved(resets)
                      IN  (/\ resets # {}
                           /\ \A q \in SetsIn(PhaseUpTo(i), s) : PhaseBefore(q, r))
                          => event_list[i].oscillator_phase =
                                Some(Phase((event_list[i].time - input_list[r].time)
                                              * FrequencyOf(event_list[i]),
                                           SumIncrements(
                                              IncrementsAfter(PhaseUpTo(i), s, r))))

\* A play at the time of a reset that follows it in the input list, on a
\* signal whose phase was set before.
C4_Witness ==
    /\ pc = "phase_done"
    /\ \E i \in Positions(event_list) :
          /\ Resolved(i)
          /\ FrequencyOf(event_list[i]) # 0
          /\ \E s \in event_list[i].signal :
                /\ \E r \in Positions(input_list) :
                      /\ IsReset(r) /\ r > i
                      /\ input_list[r].time = event_list[i].time
                      /\ input_list[r].time > 0
                /\ \E q \in SetsIn(PhaseUpTo(i), s) : q # i

\* The event resolved last, and what it was in the input.
JustResolved == sorted_events[idx]

\* C5: right after the sweep resolved a pulse that carried
\* set_oscillator_phase = v on a software-oscillator signal, the signal's
\* cumulative phase is v, its absolute-reference time is the event's time
\* and the event has no set_oscillator_phase.
C5_SetOverwrites ==
    (pc = "phase_loop" /\ idx > 0) =>
        LET e == input_list[JustResolved]
        IN  (/\ IsPulse(e)
             /\ Has(e.set_oscillator_phase)
             /\ \A s \in e.signal : ir_signals[s].oscillator = "SW")
            => \A s \in e.signal :
                  /\ s \in DOMAIN oscillator_phase_cumulative
                  /\ oscillator_phase_cumulative[s] = Get(e.set_oscillator_phase)
                  /\ s \in DOMAIN oscillator_phase_sets
                  /\ oscillator_phase_sets[s] = e.time
                  /\ event_list[JustResolved].set_oscillator_phase = NoField

\* A set carried together with an increment, after an earlier increment.
C5_Witness ==
    /\ pc = "phase_loop" /\ idx > 1
    /\ LET e == input_list[JustResolved]
       IN  /\ IsPulse(e)
           /\ Has(e.set_oscillator_phase)
           /\ Has(e.increment_oscillator_phase)
           /\ \A s \in e.signal :
                 /\ ir_signals[s].oscillator = "SW"
                 /\ OnSignal(sorted_events[idx - 1], s)
                 /\ Has(input_list[sorted_events[idx - 1]].increment_oscillator_phase)

OnHardware(e) == IsPulse(e) /\ \A s \in e.signal : ~NotHardware(s)

\* C6: a pulse on a hardware-oscillator signal never has a numeric
\* oscillator_phase, and after the phase pass its oscillator_phase is None.
C6_HardwarePhaseIsNone ==
    \A i \in Positions(event_list) :
        OnHardware(event_list[i]) =>
            /\ event_list[i].oscillator_phase \in {NoField, Some(PyNone)}
            /\ pc = "phase_done" => event_list[i].oscillator_phase = Some(PyNone)

\* A hardware-oscillator play with a frequency and an increment, after a reset.
C6_Witness ==
    /\ pc = "phase_done"
    /\ \E i \in Positions(event_list) :
          /\ OnHardware(event_list[i])
          /\ FrequencyOf(event_list[i]) # 0
          /\ event_list[i].time > 0
          /\ Has(event_list[i].increment_oscillator_phase)
          /\ ResetsIn(PhaseUpTo(i)) # {}

OnQa(e) == IsPlayOrAcquire(e) /\ \A s \in e.signal : ir_signals[s].qa

\* C7, as stated: after the phase pass every play/acquire event on a signal
\* of a QA device has oscillator_phase 0.
C7_QaPhaseIsZero ==
    pc = "phase_done" =>
        \A i \in Positions(event_list) :
            OnQa(event_list[i]) => event_list[i].oscillator_phase = Some(Phase(0, 0))

\* C7, amended: after the phase pass every play/acquire event on a signal
\* of a QA device that has no hardware oscillator has oscillator_phase 0.
C7_QaSoftwarePhaseIsZero ==
    pc = "phase_done" =>
        \A i \in Positions(event_list) :
            (OnQa(event_list[i]) /\ ~OnHardware(event_list[i]))
                => event_list[i].oscillator_phase = Some(Phase(0, 0))

\* A play on a QA software signal, with a frequency, at a later time than
\* a set of its signal's phase.
C7_Witness ==
    /\ pc = "phase_done"
    /\ \E i \in Positions(event_list) :
          /\ OnQa(event_list[i]) /\ ~OnHardware(event_list[i])
          /\ FrequencyOf(event_list[i]) # 0
          /\ event_list[i].time > 0
          /\ \E s \in event_list[i].signal : SetsIn(PhaseUpTo(i), s) # {}

---------------------------------------------------------------------------
(* Properties of the steps of the phase pass (SpecPhase) *)

\* The sweep stands before a play, delay or acquire event.
BeforePulse ==
    /\ pc = "phase_loop"
    /\ idx < Len(sorted_events)
    /\ event_list[sorted_events[idx + 1]].event_type # RESET_SW_OSCILLATOR_PHASE

\* The event the sweep stands before, and its signal.
Current == event_list[sorted_events[idx + 1]]
CurrentSignal == SignalOf(Current)

\* C22: the step of the phase pass at a play, delay or acquire event that
\* carries increment_oscillator_phase: when the oscillator of its signal is
\* not hardware, the increment is added to the cumulative phase of the
\* signal (an absolute set on the same event then overwrites the sum), the
\* entries of the other signals stay, and the field is gone from the event;
\* when the oscillator is hardware, the field stays on the event with its
\* value and the cumulative map is not changed.
C22_IncrementAbsorbedUnlessHardware ==
    [][(BeforePulse /\ Has(Current.increment_oscillator_phase)) =>
          LET after == event_list'[sorted_events[idx + 1]]
              sum == GetOr(oscillator_phase_cumulative, CurrentSignal, 0)
                        + Get(Current.increment_oscillator_phase)
          IN  IF IsHwOsc(CurrentSignal)
              THEN /\ after.increment_oscillator_phase
                         = Current.increment_oscillator_phase
                   /\ oscillator_phase_cumulative' = oscillator_phase_cumulative
              ELSE /\ ~Has(after.increment_oscillator_phase)
                   /\ CurrentSignal \in DOMAIN oscillator_phase_cumulative'
                   /\ oscillator_phase_cumulative'[CurrentSignal] =
                         IF Has(Current.set_oscillator_phase) /\ pc' # "fault"
                         THEN Get(Current.set_oscillator_phase)
                         ELSE sum
                   /\ \A s \in DOMAIN oscillator_phase_cumulative' \ {CurrentSignal} :
                         /\ s \in DOMAIN oscillator_phase_cumulative
                         /\ oscillator_phase_cumulative'[s]
                               = oscillator_phase_cumulative[s]]_vars

\* The pass has returned a list in which an increment on a hardware signal
\* is still on its event and an increment on a software signal is gone, the
\* sum of two increments in the cumulative phase.
C22_Witness ==
    /\ pc = "phase_done"
    /\ \E i \in 1..Len(event_list) :
          /\ Has(event_list[i].increment_oscillator_phase)
          /\ IsHwOsc(SignalOf(input_list[i]))
    /\ \E i \in 1..Len(event_list) :
          /\ Has(input_list[i].increment_oscillator_phase)
          /\ ~IsHwOsc(SignalOf(input_list[i]))
          /\ ~Has(event_list[i].increment_oscillator_phase)
    /\ \E s \in DOMAIN oscillator_phase_cumulative :
          oscillator_phase_cumulative[s] = 2

C30_ElapsedPhaseNotNegative ==
    [][/\ phase_reset_time' >= phase_reset_time
       /\ \A s \in DOMAIN oscillator_phase_sets :
             /\ s \in DOMAIN oscillator_phase_sets'
             /\ oscillator_phase_sets'[s] >= oscillator_phase_sets[s]
       /\ BeforePulse =>
             LET reference == Max(phase_reset_time',
                                  GetOr(oscillator_phase_sets', CurrentSignal, 0))
                 frequency == IF Has(Current.oscillator_frequency)
                              THEN Get(Current.oscillator_frequency) ELSE 0
             IN  /\ reference <= Current.time
                 /\ (Current.time - reference) * frequency >= 0]_vars

\* C30, amended: at every step of the phase sweep at a play, delay or
\* acquire event the reference time of the event is not after the time of
\* the event, so the elapsed time is not negative (the elapsed time
\* multiplied by the frequency has the sign of the frequency, which may be
\* negative); neither the last reset time nor a signal's last set time ever
\* decreases.
C30_ElapsedTimeNotNegative ==
    [][/\ phase_reset_time' >= phase_reset_time
       /\ \A s \in DOMAIN oscillator_phase_sets :
             /\ s \in DOMAIN oscillator_phase_sets'
             /\ oscillator_phase_sets'[s] >= oscillator_phase_sets[s]
       /\ BeforePulse =>
             LET reference == Max(phase_reset_time',
                                  GetOr(oscillator_phase_sets', CurrentSignal, 0))
                 frequency == IF Has(Current.oscillator_frequency)
                              THEN Get(Current.oscillator_frequency) ELSE 0
             IN  /\ reference <= Current.time
                 /\ (Current.time - reference) * frequency >= 0
                       <=> (frequency >= 0 \/ Current.time = reference)]_vars

\* The sweep has resolved an event with a negative frequency that stands
\* after a reset, the reset after time 0: its phase is negative.
C30_Witness ==
    /\ pc = "phase_loop"
    /\ 0 < phase_reset_time
    /\ \E k \in 1..idx :
          LET e == event_list[sorted_events[k]]
          IN  /\ e.event_type = ACQUIRE_START
              /\ e.oscillator_frequency = Some(-1)
              /\ Has(e.oscillator_phase)
              /\ Get(e.oscillator_phase).cycles < 0
              /\ phase_reset_time < e.time

\* C29, as stated: the step of the phase pass at a play, delay or acquire
\* event on a signal without an oscillator that carries set_oscillator_phase
\* is no fault: the cumulative phase of the signal becomes the set value,
\* the time of the event becomes the time of the signal's last set, the
\* field is gone from the event and the event has a numeric oscillator_phase.
C29_SetWithoutOscillatorApplied ==
    [][(/\ BeforePulse
        /\ ir_signals[CurrentSignal].oscillator = "NONE"
        /\ Has(Current.set_oscillator_phase)) =>
          LET after == event_list'[sorted_events[idx + 1]]
          IN  /\ pc' # "fault"
              /\ GetOr(oscillator_phase_cumulative', CurrentSignal, 0)
                    = Get(Current.set_oscillator_phase)
              /\ GetOr(oscillator_phase_sets', CurrentSignal, -1) = Current.time
              /\ ~Has(after.set_oscillator_phase)
              /\ Has(after.oscillator_phase)
              /\ ~Get(after.oscillator_phase).none]_vars

---------------------------------------------------------------------------
(* Properties of generate_event_list_from_ir (Spec).  input_list is the    *)
(* list handed to the frequency pass.                                      *)

\* The priority of an event in a pass, none (<< >>) when the pass does not
\* select the event.
PriorityIn(priority_map, e) ==
    IF e.event_type \in DOMAIN priority_map
    THEN Some(priority_map[e.event_type]) ELSE NoField

\* Two events of equal time and equal priority in a pass that selects them.
Tied(e, f) ==
    /\ e.time = f.time
    /\ PriorityIn(FreqPriority, e) = PriorityIn(FreqPriority, f)
    /\ PriorityIn(PhasePriority, e) = PriorityIn(PhasePriority, f)
    /\ Has(PriorityIn(FreqPriority, e)) \/ Has(PriorityIn(PhasePriority, e))

\* The positions of the events a pass selects.
Selected ==
    {i \in Positions(input_list) :
        \/ Has(PriorityIn(FreqPriority, input_list[i]))
        \/ Has(PriorityIn(PhasePriority, input_list[i]))}

\* The rearrangements of the input that move tied events only, each to the
\* place of an event it is tied with: position i holds input_list[q[i]].
TiePermutations ==
    {q \in [Selected -> Selected] :
        /\ \A i, j \in Selected : q[i] = q[j] => i = j
        /\ \A i \in Selected :
              q[i] # i => Tied(input_list[i], input_list[q[i]])}

Permuted(q) ==
    [i \in Positions(input_list) |->
        IF i \in Selected THEN input_list[q[i]] ELSE input_list[i]]

\* q keeps the order of any two tied events that share a signal.
KeepsOrderPerSignal(q) ==
    \A i, j \in Selected :
        (/\ i < j
         /\ Tied(input_list[q[i]], input_list[q[j]])
         /\ input_list[q[i]].signal \cap input_list[q[j]].signal # {})
            => q[i] < q[j]

\* The same events survive in both lists, with the same frequency and phase.
SameResolution(list1, list2) ==
    /\ {list1[i].id : i \in Positions(list1)} = {list2[i].id : i \in Positions(list2)}
    /\ \A i \in Positions(list1) : \A j \in Positions(list2) :
          list1[i].id = list2[j].id =>
              /\ list1[i].oscillator_frequency = list2[j].oscillator_frequency
              /\ list1[i].oscillator_phase = list2[j].oscillator_phase

\* C13, as stated: the list returned for an input is resolved as the list
\* returned for any rearrangement of the input that moves only events of
\* equal time and equal priority: the same events survive, with the same
\* oscillator_frequency and oscillator_phase.
C13_TiedOrderIrrelevant ==
    pc = "returned" =>
        \A q \in TiePermutations :
            SameResolution(event_list, PassesResult(Permuted(q)))

\* C13, amended: the same, for the rearrangements that keep the order of
\* the tied events that share a signal.
C13_TiedOrderIrrelevantAcrossSignals ==
    pc = "returned" =>
        /\ event_list = PassesResult(input_list)
        /\ \A q \in TiePermutations :
              KeepsOrderPerSignal(q) =>
                  SameResolution(event_list, PassesResult(Permuted(q)))

\* Two tied frequency steps on different signals, the first in the list on
\* the signal of a play of that time that was given a phase.
C13_Witness ==
    /\ pc = "returned"
    /\ \E i, j, k \in Positions(input_list) :
          /\ i < j
          /\ input_list[i].event_type = SET_OSCILLATOR_FREQUENCY_START
          /\ input_list[j].event_type = SET_OSCILLATOR_FREQUENCY_START
          /\ Tied(input_list[i], input_list[j])
          /\ input_list[i].signal \cap input_list[j].signal = {}
          /\ IsPlayOrAcquire(input_list[k])
          /\ input_list[k].signal = input_list[i].signal
          /\ input_list[k].time = input_list[i].time
          /\ input_list[k].time > 0
          /\ NotHardware(SignalOf(input_list[k]))

\* The sweep of the phase pass stands before an event that carries
\* set_oscillator_phase on a signal with a hardware oscillator.
BeforeSetOnHardware ==
    /\ pc = "phase_loop"
    /\ idx < Len(sorted_events)
    /\ LET event == event_list[sorted_events[idx + 1]]
       IN  /\ event.event_type # RESET_SW_OSCILLATOR_PHASE
           /\ Has(event.set_oscillator_phase)
           /\ IsHwOsc(SignalOf(event))

\* C19: the step of the phase pass at an event that carries
\* set_oscillator_phase on a signal with a hardware oscillator is a fault:
\* the set stays on the event, neither the cumulative phase nor the time of
\* the last set is written, the event and every later event of the sweep
\* are left without oscillator_phase, and after the fault nothing happens,
\* so generate_event_list_from_ir returns no list.
C19_SetOnHardwareIsFatal ==
    [][/\ BeforeSetOnHardware =>
             /\ pc' = "fault"
             /\ oscillator_phase_cumulative' = oscillator_phase_cumulative
             /\ oscillator_phase_sets' = oscillator_phase_sets
             /\ Len(event_list') = Len(event_list)
             /\ Has(event_list'[sorted_events[idx + 1]].set_oscillator_phase)
             /\ \A j \in (idx + 1)..Len(sorted_events) :
                    ~Has(event_list'[sorted_events[j]].oscillator_phase)
       /\ pc = "fault" => pc' = "fault"
       /\ pc' = "returned" =>
             \A i \in 1..Len(input_list') :
                 Has(input_list'[i].set_oscillator_phase)
                    => ~IsHwOsc(SignalOf(input_list'[i]))]_vars

\* The pass has stopped at such an event, after it resolved an earlier event
\* and with a later event still to come.
C19_Witness ==
    /\ pc = "fault"
    /\ 1 <= idx /\ idx + 1 < Len(sorted_events)
    /\ Has(event_list[sorted_events[1]].oscillator_phase)
    /\ LET event == event_list[sorted_events[idx + 1]]
       IN  /\ event.event_type = PLAY_START
           /\ Has(event.set_oscillator_phase)
           /\ IsHwOsc(SignalOf(event))

\* The tree lowers to more events than max_events allows.
OverBudget ==
    Has(ir_root) /\ Len(GenerateEventList(Get(ir_root))) > max_events

\* C20: when the tree lowers to more events than max_events,
\* generate_event_list_from_ir ends in the fault of the flattening and
\* returns nothing: it never reaches the time conversion, the frequency
\* pass, the phase pass or its return, and the list it held when the fault
\* was raised (the start events) is handed to no pass.
C20_OverBudgetReturnsNothing ==
    OverBudget =>
        /\ pc \in {"start", "flatten", "fault"}
        /\ input_list = << >>
        /\ sorted_events = << >>
        /\ event_list \in {<< >>, StartEvents(ir_devices)}
        /\ \A i \in 1..Len(event_list) :
              /\ event_list[i].time = 0
              /\ ~Has(event_list[i].oscillator_frequency)
              /\ ~Has(event_list[i].oscillator_phase)

\* The flattening has failed with start events already in the list.
C20_Witness ==
    /\ OverBudget
    /\ pc = "fault"
    /\ event_list # << >>
    /\ Len(Get(ir_root)) = MaxEvents

\* The start events of a list, by position.
StartPositions(list) ==
    {i \in 1..Len(list) :
        list[i].event_type = INITIAL_RESET_HW_OSCILLATOR_PHASE}

\* C25: every event of the list generate_event_list_from_ir returns has an
\* id and no two have the same; the start events, which come without an
\* id, got the values of the counter that follow the ids of the events of
\* the tree, one after the other in list order.
C25_IdsUnique ==
    pc = "returned" =>
        /\ \A i \in 1..Len(event_list) : event_list[i].id # NoId
        /\ \A i, j \in 1..Len(event_list) :
              i # j => event_list[i].id # event_list[j].id
        /\ \A i \in StartPositions(input_list) :
              input_list[i].id =
                 Len(input_list) - Cardinality(StartPositions(input_list))
                    + Cardinality(StartPositions(input_list) \cap 1..(i - 1))
        /\ \A i \in 1..Len(input_list) \ StartPositions(input_list) :
              input_list[i].id <
                 Len(input_list) - Cardinality(StartPositions(input_list))

\* A list is returned with two start events and the events of a tree, a
\* frequency step with its END among them.
C25_Witness ==
    /\ pc = "returned"
    /\ Cardinality(StartPositions(event_list)) = 2
    /\ Len(event_list) >= 4
    /\ \E i \in 1..Len(event_list) :
          event_list[i].event_type = SET_OSCILLATOR_FREQUENCY_END

\* The time, in tiny samples, at which the tree puts the event with this id.
TinyTimeOf(id) == GenerateEventList(Get(ir_root))[id + 1].time

\* An event without the fields the phase pass writes or deletes.
WithoutPhaseFields(e) ==
    [e EXCEPT !.oscillator_phase = NoField,
              !.increment_oscillator_phase = NoField,
              !.set_oscillator_phase = NoField]

StripPhase(list) == [i \in 1..Len(list) |-> WithoutPhaseFields(list[i])]

\* The time of an event of either list is its time in tiny samples,
\* multiplied by TINYSAMPLE once.
ConvertedOnce(list) ==
    \A i \in 1..Len(list) :
        list[i].time =
            IF list[i].event_type = INITIAL_RESET_HW_OSCILLATOR_PHASE
            THEN 0 * TINYSAMPLE
            ELSE TinyTimeOf(list[i].id) * TINYSAMPLE

\* C26: up to the conversion the times are in tiny samples and no pass has
\* seen the list; the list handed to the frequency pass has every time
\* multiplied by TINYSAMPLE once, the start events included, and ids
\* already assigned when there is a tree; the times stay so in every later
\* state; while the frequency pass runs the phase pass has written nothing;
\* and once the phase pass has started the list is, but for the fields the
\* phase pass writes, the list the frequency pass returned.
C26_ConvertedOnceThenFreqThenPhase ==
    /\ pc \in {"start", "flatten", "convert"} =>
          /\ input_list = << >>
          /\ \A i \in 1..Len(event_list) :
                /\ ~Has(event_list[i].oscillator_frequency)
                /\ event_list[i].time =
                      IF event_list[i].event_type = INITIAL_RESET_HW_OSCILLATOR_PHASE
                      THEN 0 ELSE TinyTimeOf(event_list[i].id)
    /\ pc \in {"freq_start", "freq_loop", "freq_done", "phase_start",
                "phase_loop", "phase_done", "returned"} =>
          /\ ConvertedOnce(input_list)
          /\ ConvertedOnce(event_list)
          /\ Has(ir_root) => \A i \in 1..Len(input_list) : input_list[i].id # NoId
    /\ pc \in {"freq_start", "freq_loop", "freq_done", "phase_start"} =>
          /\ oscillator_phase_cumulative = EmptyMap
          /\ oscillator_phase_sets = EmptyMap
          /\ \A i \in 1..Len(event_list) : ~Has(event_list[i].oscillator_phase)
    /\ pc \in {"phase_start", "phase_loop", "phase_done", "returned"} =>
          StripPhase(event_list) = StripPhase(FreqResult(input_list))

\* A list is returned that holds a start event and an event of the tree at
\* a time after 0, resolved by both passes.
C26_Witness ==
    /\ pc = "returned"
    /\ StartPositions(event_list) # {}
    /\ \E i \in 1..Len(event_list) :
          /\ event_list[i].time = MaxTime * TINYSAMPLE
          /\ Has(event_list[i].oscillator_frequency)
          /\ Has(event_list[i].oscillator_phase)

IsStartEvent(e) == e.event_type = INITIAL_RESET_HW_OSCILLATOR_PHASE

\* C27: the list generate_event_list_from_ir returns holds one
\* INITIAL_RESET_HW_OSCILLATOR_PHASE event for each device that supports
\* the reset of the oscillator phase, at time 0 and with the reset duration
\* of the device's type, and none for any other device; and from the call
\* of the frequency pass on, the start events of the list are the start
\* events handed to the pass, unchanged and in the same order, without
\* oscillator_frequency and oscillator_phase.
C27_StartEventsPerResetDevice ==
    /\ pc = "returned" =>
          /\ \A n \in 1..Len(ir_devices) :
                Cardinality({i \in StartPositions(event_list) :
                               event_list[i].device_id = Some(n)})
                   = IF ir_devices[n] \in {"RESET", "RESET_LONG"} THEN 1 ELSE 0
          /\ \A i \in StartPositions(event_list) :
                /\ event_list[i].time = 0
                /\ Has(event_list[i].device_id)
                /\ Get(event_list[i].device_id) \in 1..Len(ir_devices)
                /\ event_list[i].duration =
                      Some(IF ir_devices[Get(event_list[i].device_id)] = "RESET_LONG"
                           THEN 2 ELSE 1)
    /\ pc \in {"freq_start", "freq_loop", "freq_done", "phase_start",
                "phase_loop", "phase_done", "returned"} =>
          /\ SelectSeq(event_list, IsStartEvent)
                = SelectSeq(input_list, IsStartEvent)
          /\ \A i \in StartPositions(event_list) :
                /\ ~Has(event_list[i].oscillator_frequency)
                /\ ~Has(event_list[i].oscillator_phase)

\* A list is returned for devices of all four kinds, with frequency events
\* removed by the frequency pass and a play resolved by the phase pass.
C27_Witness ==
    /\ pc = "returned"
    /\ Len(ir_devices) = 4
    /\ Len(event_list) < Len(input_list)
    /\ \E i \in 1..Len(event_list) : Has(event_list[i].oscillator_phase)

\* C28, as stated: for an IR without a root generate_event_list_from_ir
\* never faults, and what it returns is the list of the start events, one
\* for each device that supports the reset, at time 0.
C28_NoRootReturnsStartEvents ==
    ~Has(ir_root) =>
        /\ pc # "fault"
        /\ pc = "returned" =>
              /\ Len(event_list) = Len(StartEvents(ir_devices))
              /\ \A i \in 1..Len(event_list) :
                    /\ IsStartEvent(event_list[i])
                    /\ event_list[i].time = 0
                    /\ event_list[i].device_id = StartEvents(ir_devices)[i].device_id

---------------------------------------------------------------------------
(* Properties of the pipeline on unknown signals (SpecLookup) *)

\* A sweep stands before an event that names a signal ir.signals lacks.
BeforeUnknownSignal ==
    /\ pc \in {"freq_loop", "phase_loop"}
    /\ idx < Len(sorted_events)
    /\ event_list[sorted_events[idx + 1]].event_type # RESET_SW_OSCILLATOR_PHASE
    /\ ~Known(event_list[sorted_events[idx + 1]])

\* The events whose signals a pass looks up.
LooksUpSignal(e) ==
    e.event_type \in {PLAY_START, ACQUIRE_START, DELAY_START,
                      SET_OSCILLATOR_FREQUENCY_START,
                      INITIAL_OSCILLATOR_FREQUENCY}

\* C21: the step of the frequency sweep or of the phase sweep at an event
\* that names a signal absent from ir.signals is a fault that leaves the
\* event list as it was; after a fault nothing happens; and a list is
\* returned only when every play, acquire, delay and frequency-defining
\* event of the list handed to the passes names known signals only.
C21_UnknownSignalIsFatal ==
    [][/\ BeforeUnknownSignal =>
             /\ pc' = "fault"
             /\ event_list' = event_list
             /\ oscillator_phase_cumulative' = oscillator_phase_cumulative
             /\ oscillator_phase_sets' = oscillator_phase_sets
       /\ pc = "fault" => pc' = "fault"
       /\ pc' = "returned" =>
             \A i \in 1..Len(input_list') :
                 LooksUpSignal(input_list'[i]) => Known(input_list'[i])]_vars

\* The phase sweep has stopped at a delay on an unknown signal, after it
\* resolved an earlier event.
C21_Witness ==
    /\ pc = "fault"
    /\ 1 <= idx /\ idx < Len(sorted_events)
    /\ Has(event_list[sorted_events[1]].oscillator_phase)
    /\ event_list[sorted_events[idx + 1]].event_type = DELAY_START
    /\ ~Known(event_list[sorted_events[idx + 1]])

---------------------------------------------------------------------------
(* Properties of the oscillator parameters (SpecParams) *)

\* The observations recorded for a signal, in traversal order.
Recorded(sig) == GetOr(sw_osc_times, sig, << >>)

\* The recorded observations of a signal at or before a time.
RecordedUpTo(sig, time) ==
    {k \in 1..Len(Recorded(sig)) : Recorded(sig)[k][1] <= time}

\* Of a non-empty set of observations: the one of the greatest time, and
\* among those of that time the one recorded last.
LatestOf(sig, S) ==
    CHOOSE k \in S :
        \A j \in S :
            \/ Recorded(sig)[j][1] < Recorded(sig)[k][1]
            \/ Recorded(sig)[j][1] = Recorded(sig)[k][1] /\ j <= k

\* C15: freq_at on a signal with recorded observations does not raise; it
\* returns None when the time is before every recorded time, and otherwise
\* the value recorded at the greatest recorded time not after it, the one
\* recorded last when several observations share that time.
C15_FreqAtNearestPrevious ==
    Has(answer) =>
        LET a == Get(answer)
            S == RecordedUpTo(a.identifier, a.time)
        IN  Recorded(a.identifier) # << >> =>
                /\ ~a.raised
                /\ IF S = {} THEN a.result = NoField
                   ELSE a.result =
                          Some(Recorded(a.identifier)[LatestOf(a.identifier, S)][2])

\* A query answered from two observations of one time, recorded before an
\* observation of an earlier time.
C15_Witness ==
    /\ Has(answer)
    /\ LET a == Get(answer)
           obs == Recorded(a.identifier)
       IN  \E j, k, m \in RecordedUpTo(a.identifier, a.time) :
              /\ j < k /\ k < m
              /\ obs[j][1] = obs[k][1]
              /\ obs[m][1] < obs[k][1]
              /\ k = LatestOf(a.identifier, RecordedUpTo(a.identifier, a.time))
              /\ obs[k][1] < a.time

IsFrequencyNode(n) ==
    tree[n].cls \in {SetOscillatorFrequencyIR, InitialOscillatorFrequencyIR}

ParentOf(n) ==
    CHOOSE p \in 1..Len(tree) :
        \E c \in 1..Len(tree[p].children) : tree[p].children[c][2] = n

OffsetOf(n) ==
    LET p == ParentOf(n)
        c == CHOOSE d \in 1..Len(tree[p].children) : tree[p].children[d][2] = n
    IN  tree[p].children[c][1]

\* The sum of the offsets of a node and of its ancestors.
RECURSIVE AbsoluteStart(_)
AbsoluteStart(n) ==
    IF n = 1 THEN 0 ELSE OffsetOf(n) + AbsoluteStart(ParentOf(n))

\* The observations the tree holds for a signal.
Expected(sig) ==
    UNION {{<<AbsoluteStart(n), tree[n].values[k]>> :
              k \in {j \in 1..Len(tree[n].oscillators) :
                        /\ ~Oscillators[tree[n].oscillators[j]].is_hardware
                        /\ sig \in Oscillators[tree[n].oscillators[j]].signals}} :
           n \in {m \in 1..Len(tree) : IsFrequencyNode(m)}}

\* C16: after the traversal the series of a signal holds exactly the
\* observations (sum of the offsets of the node and its ancestors, value)
\* of the pairs with a non-hardware oscillator of that signal, of every
\* frequency node of the tree; freq_keys() is the signals that have one,
\* and never a signal that only hardware oscillators modulate.
C16_ObservationsOfTree ==
    pc = "query" =>
        /\ \A sig \in TreeSignals :
              /\ {Recorded(sig)[k] : k \in 1..Len(Recorded(sig))} = Expected(sig)
              /\ Len(Recorded(sig)) = Cardinality(Expected(sig))
        /\ FreqKeys = {sig \in TreeSignals : Expected(sig) # {}}
        /\ "s3" \notin FreqKeys

\* A frequency node two levels below the root, at an absolute time above
\* its own offset, with a hardware and a software oscillator.
C16_Witness ==
    /\ pc = "query"
    /\ \E n \in 1..Len(tree) :
          /\ IsFrequencyNode(n)
          /\ ParentOf(n) # 1
          /\ AbsoluteStart(n) > OffsetOf(n)
          /\ \E j, k \in 1..Len(tree[n].oscillators) :
                /\ Oscillators[tree[n].oscillators[j]].is_hardware
                /\ ~Oscillators[tree[n].oscillators[k]].is_hardware
    /\ FreqKeys = {"s1", "s2"}

\* C17, as stated: freq_at never raises; a query on a signal with no
\* recorded observation at or before the time, or with none at all,
\* returns None.
C17_QueryBeforeDataIsNoData ==
    Has(answer) =>
        LET a == Get(answer)
        IN  /\ ~a.raised
            /\ RecordedUpTo(a.identifier, a.time) = {} => a.result = NoField

---------------------------------------------------------------------------
(* Properties of ScheduleData (SpecSchedule) *)

\* The cache that holds the first n pairs of a log, and nothing else.
RECURSIVE CacheOf(_, _)
CacheOf(log, n) ==
    IF n = 0 THEN EmptyMap
    ELSE LET cache == CacheOf(log, n - 1)
         IN  Put(cache, log[n][1],
                 Append(GetOr(cache, log[n][1], << >>), log[n][2]))

\* C18: after every step the cache of acquire pulses holds exactly the
\* entries put into it since the last reset(); after a reset() it is empty,
\* also when the reset follows a reset; and a reset() changes none of
\* experiment_dao, sampling_rate_tracker, signal_objects, combined_warnings.
C18_ResetClearsCacheOnly ==
    [][/\ acquire_pulses' = CacheOf(cached_since_reset', Len(cached_since_reset'))
       /\ pc' = "reset" =>
             /\ acquire_pulses' = EmptyMap
             /\ UNCHANGED <<experiment_dao, sampling_rate_tracker,
                            signal_objects, combined_warnings>>]_vars

\* A cache filled again after a reset that found the cache, the registry
\* and the warnings filled.
C18_Witness ==
    /\ pc = "cache"
    /\ Len(cached_since_reset) = 1
    /\ DOMAIN signal_objects = ScheduleSignals
    /\ DOMAIN combined_warnings = WarningKeys
    /\ DOMAIN acquire_pulses = {"s2"}

====
